---- MODULE Spec2Model ----
(***************************************************************************)
(* A model of logpipe (tylermac92/logpipe): the two line parsers and their *)
(* two output channels, the format sniffer, the filter compiler and        *)
(* evaluator, the merge pipeline, the stats aggregation, the set-up and    *)
(* the single-source pipeline of main, and the three renderers.            *)
(*                                                                         *)
(* Strings are sequences of one-character strings, so that indexing,       *)
(* slicing and byte-wise comparison are computed as the Go code computes   *)
(* them.  Go indexes from 0 and TLA+ from 1: every index below is the      *)
(* TLA+ (1-based) one, and 0 stands for Go's -1 ("not found").             *)
(*                                                                         *)
(* The module holds one state machine per component; each has its own      *)
(* specification (SpecParser, SpecSniff, SpecFilter, SpecMerge, SpecStats, *)
(* SpecRun, SpecLogfmt, SpecComposite, SpecSetup, SpecTimestamp, SpecLoad, *)
(* SpecRoundTrip, SpecPipe) in which the variables of the other components *)
(* stay at their idle value.                                               *)
(***************************************************************************)
EXTENDS Integers, Sequences, FiniteSets, TLC

VARIABLES
    \* ---- parser (JSONParser.Parse / LogfmtParser.Parse and its consumers)
    variant,        \* "json" or "logfmt": which Parse is running
    input,          \* the lines scanner.Scan yields, in order
    errDrain,       \* TRUE when a task ranges over the error channel
    ppc,            \* position of the producer goroutine
    lineNum,        \* the producer's lineNum
    pending,        \* the value the producer is sending
    errorsBuf,      \* contents of the buffered channel `errors`
    errorsClosed,   \* close(errors) has run
    entriesClosed,  \* close(entries) has run
    rpc,            \* position of the task ranging over `entries`
    epc,            \* position of the task ranging over `errors`
    got,            \* Records received from `entries`, in order
    gotErrs,        \* errors received from `errors`, in order
    \* ---- sniffFormat and the reader it returns
    stream,         \* the bytes of the reader r given to sniffFormat
    brPos,          \* how many bytes of r the bufio.Reader br has handed out
    sniffPc,        \* position in sniffFormat and in the caller's read
    detected,       \* the format name sniffFormat returns
    peeked,         \* the line the returned reader yields before br
    out,            \* what reading the returned reader to its end gives
    \* ---- filter (NewFieldFilter, FieldFilter.Match)
    expr,           \* the expression given to NewFieldFilter
    filt,           \* what NewFieldFilter returned
    fentry,         \* the entry given to Match
    matched,        \* what Match returned
    fpc,            \* "idle", "compiled", "failed" or "matched"
    \* ---- merge mode (main with --merge, loadEntries)
    mfiles,         \* per merge file, the Records its parser delivers, in order
    mIdx,           \* how many of the files have been loaded
    all,            \* the slice `all` of mergedEntry
    ch,             \* contents of the buffered channel `ch`
    mout,           \* the entries given to the formatter, in order
    mpc,            \* "idle", "load", "emit" or "done"
    \* ---- stats mode (collectStats)
    tinput,         \* every entry the channel given to collectStats delivers
    tentries,       \* the entries collectStats has not received yet
    tfilters,       \* the filters of composite, whose Match is `match`
    tfield,         \* the field named with -stats
    counts,         \* the map `counts`
    tresult,        \* the slice collectStats returns
    tpc,            \* "idle", "tally" or "done"
    \* ---- single-source mode (the normal pipeline of main)
    runPc,          \* "idle", "running" or "exited"
    runFilters,     \* the filters of composite
    fmtPos,         \* how many received Records the main loop is through with
    formatted,      \* the Format calls made, in order, each with its outcome
    exitCode,       \* main's exitCode
    \* ---- parseLogfmt called on one line
    lfLine,         \* the line given to parseLogfmt
    lfResult,       \* what parseLogfmt returned
    lfPc,           \* "idle", "called" or "done"
    \* ---- CompositeFilter.Match
    cfilters,       \* the children of the CompositeFilter, in order
    centry,         \* the entry given to its Match
    cmatched,       \* what its Match returned
    cpc,            \* "idle", "called" or "done"
    \* ---- the set-up of main
    flags,          \* the command line, and what its sources hold
    sPc,            \* position of main in its set-up
    sIdx,           \* index of the loop main is in
    sStatus,        \* the status given to os.Exit
    sStarts,        \* how many times Parse has been called
    sLoaded,        \* how many Records loadEntries has returned
    sReported,      \* how many parse errors have been printed
    sProcessed,     \* how many Records have gone on to the filter
    sCompileFailed, \* NewFieldFilter has returned an error
    sOpenFailed,    \* os.Open has returned an error
    \* ---- the timestamp of a Record
    tsEntry,        \* the Record whose timestamp is taken
    tsSort,         \* what parseTimestampForSort returns for it
    tsShown,        \* the field value the text renderer takes for it
    tsPc,           \* "idle", "called" or "done"
    \* ---- loadEntries on a JSON file
    ldInput,        \* the lines of the file given to loadEntries
    ldTaken,        \* how many Records the loop has received
    ldResult,       \* the slice loadEntries builds
    ldPc,           \* "idle", "loading", "returned" or "panicked"
    \* ---- LogfmtFormatter.Format and back
    rtEntry,        \* the entry given to LogfmtFormatter.Format
    rtOut,          \* the bytes Format wrote
    rtResult,       \* what parseLogfmt returns for the line written
    rtPc,           \* "idle", "formatted" or "parsed"
    \* ---- a Record through loadEntries, filter and renderer
    pipeMode,       \* "single" or "merge"
    pipeFormat,     \* the -format of the run
    pipeFilters,    \* the children of the composite filter
    parsed,         \* the Record as the parser emitted it
    record,         \* the Record as it is now
    pipeMatched,    \* what composite.Match returned
    written,        \* the bytes Format wrote
    pipePc          \* "idle", "load", "match", "format" or "done"

pvars == <<variant, input, errDrain, ppc, lineNum, pending, errorsBuf,
           errorsClosed, entriesClosed, rpc, epc, got, gotErrs>>

svars == <<stream, brPos, sniffPc, detected, peeked, out>>

fvars == <<expr, filt, fentry, matched, fpc>>

mvars == <<mfiles, mIdx, all, ch, mout, mpc>>

tvars == <<tinput, tentries, tfilters, tfield, counts, tresult, tpc>>

rvars == <<runPc, runFilters, fmtPos, formatted, exitCode>>

lvars == <<lfLine, lfResult, lfPc>>

cvars == <<cfilters, centry, cmatched, cpc>>

uvars == <<flags, sPc, sIdx, sStatus, sStarts, sLoaded, sReported, sProcessed, sCompileFailed, sOpenFailed>>

tsvars == <<tsEntry, tsSort, tsShown, tsPc>>

ldvars == <<ldInput, ldTaken, ldResult, ldPc>>

rtvars == <<rtEntry, rtOut, rtResult, rtPc>>

pipevars == <<pipeMode, pipeFormat, pipeFilters, parsed, record, pipeMatched, written, pipePc>>

vars == <<pvars, svars, fvars, mvars, tvars, rvars, lvars, cvars, uvars, tsvars, ldvars, rtvars, pipevars>>

\* what the steps of one component leave alone: the other components
notParser == <<svars, fvars, mvars, tvars, rvars, lvars, cvars, uvars, tsvars, ldvars, rtvars, pipevars>>
notSniff == <<pvars, fvars, mvars, tvars, rvars, lvars, cvars, uvars, tsvars, ldvars, rtvars, pipevars>>
notFilter == <<pvars, svars, mvars, tvars, rvars, lvars, cvars, uvars, tsvars, ldvars, rtvars, pipevars>>
notMerge == <<pvars, svars, fvars, tvars, rvars, lvars, cvars, uvars, tsvars, ldvars, rtvars, pipevars>>
notStats == <<pvars, svars, fvars, mvars, rvars, lvars, cvars, uvars, tsvars, ldvars, rtvars, pipevars>>
notRun == <<svars, fvars, mvars, tvars, lvars, cvars, uvars, tsvars, ldvars, rtvars, pipevars>>
notLogfmt == <<pvars, svars, fvars, mvars, tvars, rvars, cvars, uvars, tsvars, ldvars, rtvars, pipevars>>
notComposite == <<pvars, svars, fvars, mvars, tvars, rvars, lvars, uvars, tsvars, ldvars, rtvars, pipevars>>
notSetup == <<pvars, svars, fvars, mvars, tvars, rvars, lvars, cvars, tsvars, ldvars, rtvars, pipevars>>
notTimestamp == <<pvars, svars, fvars, mvars, tvars, rvars, lvars, cvars, uvars, ldvars, rtvars, pipevars>>
notLoad == <<pvars, svars, fvars, mvars, tvars, rvars, lvars, cvars, uvars, tsvars, rtvars, pipevars>>
notRoundTrip == <<pvars, svars, fvars, mvars, tvars, rvars, lvars, cvars, uvars, tsvars, ldvars, pipevars>>
notPipe == <<pvars, svars, fvars, mvars, tvars, rvars, lvars, cvars, uvars, tsvars, ldvars, rtvars>>

----------------------------------------------------------------------------
(* Bounds of the model. *)

\* longest input, in lines, given to a parser
MaxLines == 3

\* longest byte stream given to sniffFormat
MaxStream == 4

\* longest filter expression, in bytes
MaxExpr == 3

\* most files given with --merge, and most Records in all of them together
MaxFiles == 2
MaxMerge == 3

\* most entries given to collectStats
MaxStats == 4

\* longest line, in bytes, given to parseLogfmt on its own
MaxLogfmt == 5

\* most child filters of a CompositeFilter
MaxChildren == 2

\* longest value of an entry given to LogfmtFormatter.Format
MaxValue == 2

\* most lines of a file given to loadEntries
MaxLoad == 3

\* most -filter flags and most --merge flags on a command line
MaxFilterFlags == 2
MaxMergeFlags == 2

----------------------------------------------------------------------------
(* Strings. *)

\* the characters strings.TrimSpace removes (of those the model uses)
Whitespace == {" ", "\t", "\n", "\r"}

\* s[from..to] in 1-based inclusive positions; empty when from > to
Slice(s, from, to) == IF from > to THEN <<>> ELSE SubSeq(s, from, to)

\* strings.TrimSpace
TrimSpace(s) ==
    LET keep == {i \in 1..Len(s) : s[i] \notin Whitespace}
    IN  IF keep = {} THEN <<>>
        ELSE LET lo == CHOOSE i \in keep : \A j \in keep : i <= j
                 hi == CHOOSE i \in keep : \A j \in keep : j <= i
             IN  SubSeq(s, lo, hi)

\* strings.IndexByte: position of the first c in s, 0 when there is none
IndexByte(s, c) ==
    LET hits == {i \in 1..Len(s) : s[i] = c}
    IN  IF hits = {} THEN 0 ELSE CHOOSE i \in hits : \A j \in hits : i <= j

\* strings.Contains, in the place of strings.HasPrefix
HasPrefixAnywhere(s, p) ==
    \E i \in 1..(Len(s) - Len(p) + 1) : SubSeq(s, i, i + Len(p) - 1) = p

\* strings.HasPrefix
HasPrefix(s, p) == Len(s) >= Len(p) /\ SubSeq(s, 1, Len(p)) = p

\* strings.Index: start of the leftmost occurrence of sub in s, 0 when none
Index(s, sub) ==
    LET hits == {i \in 1..(Len(s) - Len(sub) + 1) :
                     SubSeq(s, i, i + Len(sub) - 1) = sub}
    IN  IF hits = {} THEN 0 ELSE CHOOSE i \in hits : \A j \in hits : i <= j

\* the bytes the model compares or counts with, in increasing byte value
ByteOrder ==
    << "\t", "\n", "\r", " ", "!", "\"", "(", ")", "0", "1", "2", "3", "4",
       "5", "6", "7", "8", "9", "<", "=", ">", "\\", "_", "a", "b", "c", "e",
       "f", "g", "i", "l", "m", "n", "o", "r", "s", "t", "u", "v", "{", "}", "~" >>

\* the rank of byte c: c < d in Go exactly when Ord(c) < Ord(d)
Ord(c) == CHOOSE i \in 1..Len(ByteOrder) : ByteOrder[i] = c

\* s < t on Go strings: byte-wise lexicographic order
StrLess(s, t) ==
    \E i \in 1..(Len(t)) :
        /\ i <= Len(s) + 1
        /\ SubSeq(s, 1, i - 1) = SubSeq(t, 1, i - 1)
        /\ (i = Len(s) + 1 \/ Ord(s[i]) < Ord(t[i]))

----------------------------------------------------------------------------
(* LogEntry: a map from field names to values.  The empty map is <<>>.  *)
(* A value (Go's `any`) is a string, a float64, a bool or nil.            *)

StrVal(s)  == [kind |-> "string", str |-> s, num |-> 0, bool |-> FALSE]
NumVal(n)  == [kind |-> "number", str |-> <<>>, num |-> n, bool |-> FALSE]
BoolVal(b) == [kind |-> "bool", str |-> <<>>, num |-> 0, bool |-> b]
NilVal     == [kind |-> "nil", str |-> <<>>, num |-> 0, bool |-> FALSE]

\* the decimal digits of a natural number
RECURSIVE Digits(_)
Digits(n) ==
    LET d == SubSeq(ByteOrder, Ord("0") + (n % 10), Ord("0") + (n % 10))
    IN  IF n < 10 THEN d ELSE Digits(n \div 10) \o d

\* fmt.Sprintf("%v", value): a string as it is, true and false, <nil>, and
\* a float64 in its shortest form (digits alone for the whole numbers
\* below 1e6 that the model uses)
SprintV(value) ==
    CASE value.kind = "string" -> value.str
      [] value.kind = "bool"   -> IF value.bool THEN <<"t", "r", "u", "e">>
                                  ELSE <<"f", "a", "l", "s", "e">>
      [] value.kind = "number" -> Digits(value.num)
      [] OTHER                 -> <<"<", "n", "i", "l", ">">>

EmptyEntry == <<>>

\* entry[key] = value on a Go map: adds the key or overwrites its value
MapSet(entry, key, value) ==
    [k \in (DOMAIN entry) \cup {key} |-> IF k = key THEN value ELSE entry[k]]

----------------------------------------------------------------------------
(* parseLogfmt *)

\* a quoted-value scan that stops on the last byte of the line when it has
\* met no closing quote, so that the line's end closes the value
QuoteEndAtLineEnd(remaining, endIdx) ==
    LET hits == {i \in endIdx..(Len(remaining) - 1) :
                    remaining[i + 1] = "\"" /\ remaining[i] # "\\"}
    IN  IF hits = {} THEN Len(remaining) - 1
        ELSE CHOOSE i \in hits : \A j \in hits : i <= j

\* a quoted-value scan that stops at the first '"', whatever precedes it
QuoteEndAtFirstQuote(remaining, endIdx) ==
    LET hits == {i \in endIdx..(Len(remaining) - 1) : remaining[i + 1] = "\""}
    IN  IF hits = {} THEN Len(remaining)
        ELSE CHOOSE i \in hits : \A j \in hits : i <= j

\* the quoted-value scan: from endIdx (Go index, 0-based) forward to the
\* first '"' whose preceding byte is not a backslash; Len(remaining) when
\* there is none.  remaining[endIdx] in Go is remaining[endIdx + 1] here.
RECURSIVE QuoteEnd(_, _)
QuoteEnd(remaining, endIdx) ==
    IF endIdx >= Len(remaining) THEN endIdx
    ELSE IF remaining[endIdx + 1] = "\"" /\ remaining[endIdx] # "\\"
         THEN endIdx
         ELSE QuoteEnd(remaining, endIdx + 1)

\* the body of the `for remaining != ""` loop, iterated to its end
RECURSIVE LogfmtLoop(_, _)
LogfmtLoop(entry, remaining0) ==
    IF remaining0 = <<>> THEN [err |-> FALSE, entry |-> entry]
    ELSE
    LET remaining == TrimSpace(remaining0) IN
    IF remaining = <<>> THEN [err |-> FALSE, entry |-> entry]
    ELSE
    LET eqIdx == IndexByte(remaining, "=") IN
    IF eqIdx = 0
    THEN [err |-> FALSE, entry |-> MapSet(entry, remaining, BoolVal(TRUE))]
    ELSE
    LET key  == Slice(remaining, 1, eqIdx - 1)
        rest == Slice(remaining, eqIdx + 1, Len(remaining))
    IN  IF HasPrefix(rest, <<"\"">>)
        THEN LET endIdx == QuoteEnd(rest, 1) IN
             IF endIdx >= Len(rest)
             THEN [err |-> TRUE, entry |-> EmptyEntry]
             ELSE LogfmtLoop(MapSet(entry, key, StrVal(Slice(rest, 2, endIdx))),
                             Slice(rest, endIdx + 2, Len(rest)))
        ELSE LET spaceIdx == IndexByte(rest, " ") IN
             IF spaceIdx = 0
             THEN LogfmtLoop(MapSet(entry, key, StrVal(rest)), <<>>)
             ELSE LogfmtLoop(MapSet(entry, key,
                                    StrVal(Slice(rest, 1, spaceIdx - 1))),
                             Slice(rest, spaceIdx + 1, Len(rest)))

parseLogfmt(line) == LogfmtLoop(EmptyEntry, line)

----------------------------------------------------------------------------
(* The parsers: JSONParser.Parse and LogfmtParser.Parse. *)

\* capacity of the error channel: make(chan error, 1)
ErrCap == 1

\* scanner.Buffer(make([]byte, 1024*1024), 1024*1024): the longest line the
\* JSON parser's scanner yields
JSONMaxToken == 1048576

\* bufio.MaxScanTokenSize, which bufio.NewScanner(r) uses when Buffer is
\* not called: the longest line the logfmt parser's scanner yields
LogfmtMaxToken == 65536

\* the lines of the model's inputs: an empty line, a blank one, a JSON
\* object, a key=value pair, a pair whose quoted value never closes, and
\* such a pair after a pair that is complete
ParserLines ==
    { <<>>, <<" ">>, <<"{", "}">>, <<"a", "=", "1">>, <<"a", "=", "\"">>,
      <<"a", "=", "1", " ", "a", "=", "\"">> }

\* json.Unmarshal([]byte(line), &entry) on the lines of ParserLines: "{}"
\* decodes to the empty map; the other lines are not JSON values
JSONUnmarshal(line) ==
    IF line = <<"{", "}">>
    THEN [err |-> FALSE, entry |-> EmptyEntry]
    ELSE [err |-> TRUE, entry |-> EmptyEntry]

\* the decoding step of each parser on each (trimmed) line of the model,
\* worked out once
Decoded ==
    [v \in {"json", "logfmt"} |->
        [line \in {TrimSpace(l) : l \in ParserLines} |->
            IF v = "json" THEN JSONUnmarshal(line) ELSE parseLogfmt(line)]]

\* json.Unmarshal(line, &entry) in JSONParser.Parse, parseLogfmt(line) in
\* LogfmtParser.Parse
Decode(v, line) == Decoded[v][line]

\* bufio.Scanner stops, with ErrTooLong, at a line that does not fit its buffer
MaxToken(v) == IF v = "json" THEN JSONMaxToken ELSE LogfmtMaxToken
ScanYields(v, line) == Len(line) < MaxToken(v)

\* a producer that leaves the loop at the first line that fails to decode
AfterDecodeErrorBreaks == "closeErrors"

\* where the producer goes after a line failed to decode: `continue`
AfterDecodeError == "scan"

\* an error channel made with room for one error more
ErrorsHasRoomForTwo == Len(errorsBuf) < ErrCap + 1

\* an error channel made without a buffer, with no receiver at hand
ErrorsUnbuffered == Len(errorsBuf) < ErrCap - 1

\* a send on `errors` can proceed: the buffer has room
ErrorsHasRoom == Len(errorsBuf) < ErrCap

Inputs ==
    UNION {[1..n -> ParserLines] : n \in 0..MaxLines}

\* before Parse is called: no channel, no goroutine
ParserInit ==
    /\ variant = "none"
    /\ input = <<>>
    /\ errDrain = FALSE
    /\ ppc = "idle"
    /\ lineNum = 0
    /\ pending = <<>>
    /\ errorsBuf = <<>>
    /\ errorsClosed = FALSE
    /\ entriesClosed = FALSE
    /\ rpc = "idle"
    /\ epc = "idle"
    /\ got = <<>>
    /\ gotErrs = <<>>

\* p.Parse(r): makes the two channels and starts the producer; the caller
\* ranges over `entries` and, when drain holds, a task of its own ranges
\* over `errors`
Parse(drain) ==
    /\ ppc = "idle"
    /\ variant' \in {"json", "logfmt"}
    /\ input' \in Inputs
    /\ errDrain' = drain
    /\ ppc' = "scan"
    /\ rpc' = "recv"
    /\ epc' = IF drain THEN "recv" ELSE "none"
    /\ UNCHANGED <<lineNum, pending, errorsBuf, errorsClosed, entriesClosed,
                   got, gotErrs>>
    /\ UNCHANGED notParser

\* a turn of the loop without `if line == "" { continue }`: a blank line is
\* decoded like any other
ScanTurnKeepsBlank(v, in, num) ==
    IF num < Len(in) /\ ScanYields(v, in[num + 1])
    THEN LET n    == num + 1
             line == TrimSpace(in[n])
             d    == Decode(v, line)
         IN  IF d.err
             THEN [lineNum |-> n, ppc |-> "sendErr",
                   pending |-> [line |-> n, cause |-> "decode"]]
             ELSE [lineNum |-> n, ppc |-> "sendEntry",
                   pending |-> [line |-> n, entry |-> d.entry]]
    ELSE IF v = "json" /\ num < Len(in)
         THEN [lineNum |-> num, ppc |-> "sendScanErr",
               pending |-> [line |-> 0, cause |-> "scanner"]]
         ELSE [lineNum |-> num, ppc |-> "closeErrors", pending |-> <<>>]

\* a turn of the loop that puts the line's 0-based position in the error
ScanTurnZeroBased(v, in, num) ==
    IF num < Len(in) /\ ScanYields(v, in[num + 1])
    THEN LET n    == num + 1
             line == TrimSpace(in[n])
             d    == Decode(v, line)
         IN  IF line = <<>>
             THEN [lineNum |-> n, ppc |-> "scan", pending |-> <<>>]
             ELSE IF d.err
             THEN [lineNum |-> n, ppc |-> "sendErr",
                   pending |-> [line |-> num, cause |-> "decode"]]
             ELSE [lineNum |-> n, ppc |-> "sendEntry",
                   pending |-> [line |-> n, entry |-> d.entry]]
    ELSE IF v = "json" /\ num < Len(in)
         THEN [lineNum |-> num, ppc |-> "sendScanErr",
               pending |-> [line |-> 0, cause |-> "scanner"]]
         ELSE [lineNum |-> num, ppc |-> "closeErrors", pending |-> <<>>]

\* one turn of `for scanner.Scan()`, up to the send (or to the loop's end):
\* the producer's next lineNum, position and value to send
ScanTurn(v, in, num) ==
    IF num < Len(in) /\ ScanYields(v, in[num + 1])
    THEN LET n    == num + 1
             line == TrimSpace(in[n])
             d    == Decode(v, line)
         IN  IF line = <<>>
             THEN [lineNum |-> n, ppc |-> "scan", pending |-> <<>>]
             ELSE IF d.err
             THEN [lineNum |-> n, ppc |-> "sendErr",
                   pending |-> [line |-> n, cause |-> "decode"]]
             ELSE [lineNum |-> n, ppc |-> "sendEntry",
                   pending |-> [line |-> n, entry |-> d.entry]]
    ELSE \* Scan returned false; only the JSON parser looks at scanner.Err()
         IF v = "json" /\ num < Len(in)
         THEN [lineNum |-> num, ppc |-> "sendScanErr",
               pending |-> [line |-> 0, cause |-> "scanner"]]
         ELSE [lineNum |-> num, ppc |-> "closeErrors", pending |-> <<>>]

Scan ==
    /\ ppc = "scan"
    /\ lineNum' = ScanTurn(variant, input, lineNum).lineNum
    /\ ppc' = ScanTurn(variant, input, lineNum).ppc
    /\ pending' = ScanTurn(variant, input, lineNum).pending
    /\ UNCHANGED <<variant, input, errDrain, errorsBuf, errorsClosed,
                   entriesClosed, rpc, epc, got, gotErrs>>
    /\ UNCHANGED notParser

\* a send that gives up when the buffer is full (select with a default case)
SendErrOrDrop ==
    /\ ppc \in {"sendErr", "sendScanErr"}
    /\ errorsBuf' = IF Len(errorsBuf) < ErrCap
                    THEN Append(errorsBuf, pending) ELSE errorsBuf
    /\ ppc' = IF ppc = "sendErr" THEN "scan" ELSE "closeErrors"
    /\ pending' = <<>>
    /\ UNCHANGED <<variant, input, errDrain, lineNum, errorsClosed,
                   entriesClosed, rpc, epc, got, gotErrs>>
    /\ UNCHANGED notParser

\* errors <- fmt.Errorf(...): blocks while the buffer is full
SendErr ==
    /\ ppc \in {"sendErr", "sendScanErr"}
    /\ ErrorsHasRoom
    /\ errorsBuf' = Append(errorsBuf, pending)
    /\ ppc' = IF ppc = "sendErr" THEN AfterDecodeError ELSE "closeErrors"
    /\ pending' = <<>>
    /\ UNCHANGED <<variant, input, errDrain, lineNum, errorsClosed,
                   entriesClosed, rpc, epc, got, gotErrs>>
    /\ UNCHANGED notParser

\* a hand-over that puts the newest Record ahead of the earlier ones
SendEntryPrepends ==
    /\ ppc = "sendEntry"
    /\ rpc = "recv"
    /\ got' = <<pending>> \o got
    /\ ppc' = "scan"
    /\ pending' = <<>>
    /\ UNCHANGED <<variant, input, errDrain, lineNum, errorsBuf, errorsClosed,
                   entriesClosed, rpc, epc, gotErrs>>
    /\ UNCHANGED notParser

\* entries <- entry on the unbuffered channel, together with the receive of
\* the task ranging over `entries`
SendEntry ==
    /\ ppc = "sendEntry"
    /\ rpc = "recv"
    /\ got' = Append(got, pending)
    /\ ppc' = "scan"
    /\ pending' = <<>>
    /\ UNCHANGED <<variant, input, errDrain, lineNum, errorsBuf, errorsClosed,
                   entriesClosed, rpc, epc, gotErrs>>
    /\ UNCHANGED notParser

\* the deferred calls in the order they are written: close(entries) first
CloseEntriesFirst ==
    /\ ppc = "closeErrors"
    /\ entriesClosed' = TRUE
    /\ ppc' = "closeEntries"
    /\ UNCHANGED <<variant, input, errDrain, lineNum, pending, errorsBuf,
                   errorsClosed, rpc, epc, got, gotErrs>>
    /\ UNCHANGED notParser

\* the deferred calls run last-in first-out: close(errors) ...
CloseErrors ==
    /\ ppc = "closeErrors"
    /\ errorsClosed' = TRUE
    /\ ppc' = "closeEntries"
    /\ UNCHANGED <<variant, input, errDrain, lineNum, pending, errorsBuf,
                   entriesClosed, rpc, epc, got, gotErrs>>
    /\ UNCHANGED notParser

\* ... and then close(entries)
CloseEntries ==
    /\ ppc = "closeEntries"
    /\ entriesClosed' = TRUE
    /\ ppc' = "done"
    /\ UNCHANGED <<variant, input, errDrain, lineNum, pending, errorsBuf,
                   errorsClosed, rpc, epc, got, gotErrs>>
    /\ UNCHANGED notParser

\* `for entry := range entries` ends when the channel is closed
EntriesDone ==
    /\ rpc = "recv"
    /\ entriesClosed
    /\ rpc' = "done"
    /\ UNCHANGED <<variant, input, errDrain, ppc, lineNum, pending, errorsBuf,
                   errorsClosed, entriesClosed, epc, got, gotErrs>>
    /\ UNCHANGED notParser

\* `for err := range errors`: one receive
RecvErr ==
    /\ epc = "recv"
    /\ errorsBuf # <<>>
    /\ gotErrs' = Append(gotErrs, Head(errorsBuf))
    /\ errorsBuf' = Tail(errorsBuf)
    /\ UNCHANGED <<variant, input, errDrain, ppc, lineNum, pending,
                   errorsClosed, entriesClosed, rpc, epc, got>>
    /\ UNCHANGED notParser

\* `for err := range errors` ends when the channel is closed and empty
ErrsDone ==
    /\ epc = "recv"
    /\ errorsBuf = <<>>
    /\ errorsClosed
    /\ epc' = "done"
    /\ UNCHANGED <<variant, input, errDrain, ppc, lineNum, pending, errorsBuf,
                   errorsClosed, entriesClosed, rpc, got, gotErrs>>
    /\ UNCHANGED notParser

\* the steps of the producer and of the tasks ranging over the channels
ParserSteps ==
    \/ Scan
    \/ SendErr
    \/ SendEntry
    \/ CloseErrors
    \/ CloseEntries
    \/ EntriesDone
    \/ RecvErr
    \/ ErrsDone

\* Parse with either kind of consumer: one that drains both channels and
\* one that reads the Record channel only
ParserNext ==
    \/ \E drain \in BOOLEAN : Parse(drain)
    \/ ParserSteps

\* Parse with both channels drained, each by its own task
ParserNextDrained ==
    \/ Parse(TRUE)
    \/ ParserSteps

\* Parse with a caller that ranges over `entries` and never reads `errors`
ParserNextUndrained ==
    \/ Parse(FALSE)
    \/ Scan
    \/ SendErr
    \/ SendEntry
    \/ CloseErrors
    \/ CloseEntries
    \/ EntriesDone

----------------------------------------------------------------------------
(* sniffFormat *)

\* the bytes of the model's streams
StreamBytes == {"\n", " ", "{", "a"}

Streams == UNION {[1..n -> StreamBytes] : n \in 0..MaxStream}

\* br.ReadString('\n') with `pos` bytes of s already handed out: the bytes up
\* to and including the next '\n'; at the end of s, what is left and io.EOF
ReadString(s, pos) ==
    LET rest == Slice(s, pos + 1, Len(s))
        nl   == IndexByte(rest, "\n")
    IN  IF nl = 0
        THEN [line |-> rest, err |-> "EOF", pos |-> Len(s)]
        ELSE [line |-> Slice(rest, 1, nl), err |-> "nil", pos |-> pos + nl]

SniffInit ==
    /\ stream = <<>>
    /\ brPos = 0
    /\ sniffPc = "idle"
    /\ detected = ""
    /\ peeked = <<>>
    /\ out = <<>>

\* sniffFormat(r) is called: br := bufio.NewReader(r)
SniffCall ==
    /\ sniffPc = "idle"
    /\ stream' \in Streams
    /\ sniffPc' = "read"
    /\ UNCHANGED <<brPos, detected, peeked, out>>
    /\ UNCHANGED notSniff

\* one turn of the `for` loop of sniffFormat
SniffReadLine ==
    /\ sniffPc = "read"
    /\ LET rd      == ReadString(stream, brPos)
           trimmed == TrimSpace(rd.line)
       IN  /\ brPos' = rd.pos
           /\ IF trimmed # <<>>
              THEN \* io.MultiReader(strings.NewReader(line), br)
                   /\ peeked' = rd.line
                   /\ detected' = IF HasPrefix(trimmed, <<"{">>)
                                  THEN "json" ELSE "logfmt"
                   /\ sniffPc' = "returned"
              ELSE IF rd.err = "EOF"
              THEN \* return "json", br, nil
                   /\ peeked' = <<>>
                   /\ detected' = "json"
                   /\ sniffPc' = "returned"
              ELSE \* a blank line: read the next one
                   /\ UNCHANGED <<peeked, detected, sniffPc>>
    /\ UNCHANGED <<stream, out>>
    /\ UNCHANGED notSniff

\* the caller reads the returned reader to its end (io.ReadAll, or the
\* parser's scanner): the peeked line, then what br has not handed out yet
SniffReadAll ==
    /\ sniffPc = "returned"
    /\ out' = peeked \o Slice(stream, brPos + 1, Len(stream))
    /\ brPos' = Len(stream)
    /\ sniffPc' = "done"
    /\ UNCHANGED <<stream, detected, peeked>>
    /\ UNCHANGED notSniff

SniffNext ==
    \/ SniffCall
    \/ SniffReadLine
    \/ SniffReadAll

----------------------------------------------------------------------------
(* The filter: NewFieldFilter, FieldFilter.Match, CompositeFilter.Match. *)

\* the bytes of the model's filter expressions: a letter, the operators'
\* bytes, and "(", which alone makes a pattern regexp.Compile rejects
ExprBytes == {"a", "!", "=", ">", "<", "~", "("}

Exprs == UNION {[1..n -> ExprBytes] : n \in 0..MaxExpr}

\* operators with "=" tried before "!="
OperatorsEqualFirst ==
    << <<"=">>, <<"!", "=">>, <<"~">>, <<">", "=">>, <<"<", "=">>,
       <<">">>, <<"<">> >>

\* operators := []string{"!=", "~", ">=", "<=", "=", ">", "<"}
Operators ==
    << <<"!", "=">>, <<"~">>, <<">", "=">>, <<"<", "=">>, <<"=">>,
       <<">">>, <<"<">> >>

\* regexp.Compile(value) succeeds.  Of ExprBytes only "(" is a
\* metacharacter, and with no ")" to close it every "(" is an error.
RegexCompiles(value) == IndexByte(value, "(") = 0

\* re.MatchString(s) for a pattern of literal bytes: it occurs in s
RegexMatch(pattern, s) == Index(s, pattern) # 0

NoFilter == [err |-> "none", Field |-> <<>>, Operator |-> <<>>, Value |-> <<>>,
             re |-> FALSE]

\* a loop that, when the pattern of a ~ does not compile, goes on to the
\* operators after ~ (continue in the place of return)
RECURSIVE TryOperatorsPastBadRegex(_, _)
TryOperatorsPastBadRegex(expression, k) ==
    IF k > Len(Operators)
    THEN [NoFilter EXCEPT !.err = "invalid filter expression"]
    ELSE LET op  == Operators[k]
             idx == Index(expression, op)
         IN  IF idx = 0
             THEN TryOperatorsPastBadRegex(expression, k + 1)
             ELSE LET field == Slice(expression, 1, idx - 1)
                      value == Slice(expression, idx + Len(op), Len(expression))
                  IN  IF op = <<"~">> /\ ~RegexCompiles(value)
                      THEN TryOperatorsPastBadRegex(expression, k + 1)
                      ELSE [err |-> "nil", Field |-> field, Operator |-> op,
                            Value |-> value, re |-> (op = <<"~">>)]

\* the `for _, op := range operators` loop from the k-th operator on
RECURSIVE TryOperators(_, _)
TryOperators(expression, k) ==
    IF k > Len(Operators)
    THEN [NoFilter EXCEPT !.err = "invalid filter expression"]
    ELSE LET op  == Operators[k]
             idx == Index(expression, op)
         IN  IF idx = 0
             THEN TryOperators(expression, k + 1)
             ELSE LET field == Slice(expression, 1, idx - 1)
                      value == Slice(expression, idx + Len(op), Len(expression))
                  IN  IF op = <<"~">> /\ ~RegexCompiles(value)
                      THEN [NoFilter EXCEPT !.err = "invalid regex in filter"]
                      ELSE [err |-> "nil", Field |-> field, Operator |-> op,
                            Value |-> value, re |-> (op = <<"~">>)]

NewFieldFilter(expression) == TryOperators(expression, 1)

\* the comparison Match makes once the field's value is in hand
Compare(f, s) ==
    CASE f.Operator = <<"=">>      -> s = f.Value
      [] f.Operator = <<"!", "=">> -> s # f.Value
      [] f.Operator = <<">">>      -> StrLess(f.Value, s)
      [] f.Operator = <<"<">>      -> StrLess(s, f.Value)
      [] f.Operator = <<">", "=">> -> ~StrLess(s, f.Value)
      [] f.Operator = <<"<", "=">> -> ~StrLess(f.Value, s)
      [] f.Operator = <<"~">>      -> RegexMatch(f.Value, s)
      [] OTHER                     -> FALSE

\* a Match that looks the field up and compares whatever it gets: for a
\* missing key the map gives nil
MatchWithoutExistsCheck(f, entry) ==
    Compare(f, IF f.Field \in DOMAIN entry
               THEN SprintV(entry[f.Field]) ELSE SprintV(NilVal))

\* FieldFilter.Match
Match(f, entry) ==
    IF f.Field \notin DOMAIN entry
    THEN FALSE
    ELSE Compare(f, SprintV(entry[f.Field]))

\* a composite that asks its first child only
CompositeMatchFirstOnly(filters, entry) ==
    filters = <<>> \/ Match(Head(filters), entry)

\* CompositeFilter.Match: every child filter matches
RECURSIVE CompositeMatch(_, _)
CompositeMatch(filters, entry) ==
    IF filters = <<>> THEN TRUE
    ELSE IF ~Match(Head(filters), entry) THEN FALSE
    ELSE CompositeMatch(Tail(filters), entry)

\* the entries the model gives to Match
FilterKeys == {<<>>, <<"a">>}
FilterValues == {StrVal(<<>>), StrVal(<<"a">>), StrVal(<<"~">>), BoolVal(TRUE)}
FilterEntries ==
    UNION {[keys -> FilterValues] : keys \in SUBSET FilterKeys}

FilterInit ==
    /\ expr = <<>>
    /\ filt = NoFilter
    /\ fentry = EmptyEntry
    /\ matched = FALSE
    /\ fpc = "idle"

\* filt, err := filter.NewFieldFilter(f)
Compile ==
    /\ fpc = "idle"
    /\ \E e \in Exprs :
          /\ expr' = e
          /\ filt' = NewFieldFilter(e)
          /\ fpc' = IF NewFieldFilter(e).err = "nil" THEN "compiled" ELSE "failed"
    /\ UNCHANGED <<fentry, matched>>
    /\ UNCHANGED notFilter

\* filt.Match(entry)
DoMatch ==
    /\ fpc = "compiled"
    /\ \E e \in FilterEntries :
          /\ fentry' = e
          /\ matched' = Match(filt, e)
    /\ fpc' = "matched"
    /\ UNCHANGED <<expr, filt>>
    /\ UNCHANGED notFilter

FilterNext ==
    \/ Compile
    \/ DoMatch

----------------------------------------------------------------------------
(* Merge mode: parseTimestampForSort, loadEntries, the sort in main. *)

\* a time.Time, as whole days since 1970-01-01 and seconds into the day
\* (seconds since year 1 do not fit the model checker's integers)
Time(day, sec) == [day |-> day, sec |-> sec]

\* time.Time{}: January 1 of year 1, 00:00:00 UTC
ZeroTime == Time(-719162, 0)

\* t.Before(u)
Before(t, u) == t.day < u.day \/ (t.day = u.day /\ t.sec < u.sec)

KeyTime      == <<"t", "i", "m", "e">>
KeyTs        == <<"t", "s">>
KeyTimestamp == <<"t", "i", "m", "e", "s", "t", "a", "m", "p">>
KeyMsg       == <<"m", "s", "g">>
KeySource    == <<"_", "s", "o", "u", "r", "c", "e">>

\* []string{"time", "ts", "timestamp"}
TimeKeys == <<KeyTime, KeyTs, KeyTimestamp>>

IsDigit(c) == c \in {"0", "1", "2", "3", "4", "5", "6", "7", "8", "9"}

\* the number a string of digits denotes
RECURSIVE DigitsValue(_)
DigitsValue(s) ==
    IF s = <<>> THEN 0
    ELSE 10 * DigitsValue(SubSeq(s, 1, Len(s) - 1))
         + (Ord(s[Len(s)]) - Ord("0"))

\* fmt.Sscanf(s, "%f", &f) on the model's strings (no sign, point or
\* exponent): it reads the leading digits and ignores what follows them; with
\* no leading digit it fails
SscanFloat(s) ==
    LET stops == {i \in 1..Len(s) : ~IsDigit(s[i])}
        n     == IF stops = {} THEN Len(s)
                 ELSE (CHOOSE i \in stops : \A j \in stops : i <= j) - 1
    IN  IF n = 0 THEN [ok |-> FALSE, f |-> 0]
        ELSE [ok |-> TRUE, f |-> DigitsValue(SubSeq(s, 1, n))]

\* f > 1e9
UnixThreshold == 1000000000

\* time.Unix(sec, 0).UTC()
UnixTime(sec) == Time(sec \div 86400, sec % 86400)

TsUnix  == <<"1", "7", "0", "0", "0", "0", "0", "0", "0", "0">>
TsLate  == <<"1", "7", "0", "0", "0", "0", "0", "0", "6", "0">>
TsRFC   == <<"2", "0", "2", "3", "-", "1", "1", "-", "1", "4", "T",
             "2", "2", ":", "1", "3", ":", "2", "0", "Z">>
TsYear1 == <<"0", "0", "0", "1", "-", "0", "1", "-", "0", "1", "T",
             "0", "0", ":", "0", "0", ":", "0", "0", "Z">>
TsYear0 == <<"0", "0", "0", "0", "-", "0", "1", "-", "0", "1", "T",
             "0", "0", ":", "0", "0", ":", "0", "0", "Z">>
TsJunk  == <<"x">>

\* time.Parse(time.RFC3339, s) on the model's strings: the three that are
\* RFC 3339 date-times, with the instants they denote (2023-11-14T22:13:20Z
\* is second 1700000000 of the Unix epoch; year 0 is the 366 days before
\* year 1); every other string of the model is an error
ParseRFC3339(s) ==
    CASE s = TsRFC   -> [ok |-> TRUE, t |-> Time(19675, 80000)]
      [] s = TsYear1 -> [ok |-> TRUE, t |-> Time(-719162, 0)]
      [] s = TsYear0 -> [ok |-> TRUE, t |-> Time(-719528, 0)]
      [] OTHER       -> [ok |-> FALSE, t |-> ZeroTime]

\* the `for _, key := range` loop of parseTimestampForSort from the k-th
\* key on
RECURSIVE TimestampFrom(_, _)
TimestampFrom(entry, k) ==
    IF k > Len(TimeKeys) THEN ZeroTime
    ELSE IF TimeKeys[k] \notin DOMAIN entry THEN TimestampFrom(entry, k + 1)
    ELSE LET str == SprintV(entry[TimeKeys[k]])
             sc  == SscanFloat(str)
             rfc == ParseRFC3339(str)
         IN  IF sc.ok /\ sc.f > UnixThreshold THEN UnixTime(sc.f)
             ELSE IF rfc.ok THEN rfc.t
             ELSE TimestampFrom(entry, k + 1)

parseTimestampForSort(entry) == TimestampFrom(entry, 1)

\* filepath.Base(path) of the i-th --merge file
SourceLabel(i) == <<"f">> \o Digits(i)

\* loadEntries on the Records of file i: each tagged with _source and paired
\* with its timestamp.  src and pos are not in the program: they name the
\* Record's file and its place in it, for the claims to refer to.
RECURSIVE LoadFrom(_, _, _)
LoadFrom(records, i, pos) ==
    IF pos > Len(records) THEN <<>>
    ELSE LET entry == MapSet(records[pos], KeySource, StrVal(SourceLabel(i)))
         IN  <<[entry |-> entry, t |-> parseTimestampForSort(entry),
                src |-> i, pos |-> pos]>>
             \o LoadFrom(records, i, pos + 1)

loadEntries(records, i) == LoadFrom(records, i, 1)

\* a comparison that also puts an element before its equals
MergeLessOrEqual(x, y) == ~Before(y.t, x.t)

\* the less function given to sort.SliceStable: all[i].t.Before(all[j].t)
MergeLess(x, y) == Before(x.t, y.t)

\* sort.SliceStable on a slice of up to 20 elements is an insertion sort:
\* each element moves left while it is less than its left neighbour
RECURSIVE MergeInsert(_, _)
MergeInsert(sorted, x) ==
    IF sorted = <<>> \/ ~MergeLess(x, sorted[Len(sorted)])
    THEN Append(sorted, x)
    ELSE Append(MergeInsert(SubSeq(sorted, 1, Len(sorted) - 1), x),
                sorted[Len(sorted)])

RECURSIVE SliceStable(_)
SliceStable(seq) ==
    IF seq = <<>> THEN <<>>
    ELSE MergeInsert(SliceStable(SubSeq(seq, 1, Len(seq) - 1)), seq[Len(seq)])

\* the Records of the model's merge files: one without a timestamp field,
\* one whose timestamp field is junk, and five with a usable timestamp
MergeRecords ==
    { [k \in {KeyMsg} |-> StrVal(<<"a">>)],
      [k \in {KeyTime} |-> StrVal(TsJunk)],
      [k \in {KeyTime} |-> StrVal(TsUnix)],
      [k \in {KeyTs} |-> StrVal(TsRFC)],
      [k \in {KeyTime} |-> StrVal(TsLate)],
      [k \in {KeyTime} |-> StrVal(TsYear1)],
      [k \in {KeyTime} |-> StrVal(TsYear0)] }

\* the Records of `flat` that `owner` gives to file i, in order
RECURSIVE FileRecords(_, _, _)
FileRecords(flat, owner, i) ==
    IF flat = <<>> THEN <<>>
    ELSE LET rest == FileRecords(Tail(flat), Tail(owner), i)
         IN  IF Head(owner) = i THEN <<Head(flat)>> \o rest ELSE rest

MergeInit ==
    /\ mfiles = <<>>
    /\ mIdx = 0
    /\ all = <<>>
    /\ ch = <<>>
    /\ mout = <<>>
    /\ mpc = "idle"

\* main is run with one --merge flag per file
MergeStart ==
    /\ mpc = "idle"
    /\ \E nfiles \in 1..MaxFiles, n \in 0..MaxMerge :
          \E flat \in [1..n -> MergeRecords], owner \in [1..n -> 1..nfiles] :
              /\ \A i, j \in 1..n : i < j => owner[i] <= owner[j]
              /\ mfiles' = [i \in 1..nfiles |-> FileRecords(flat, owner, i)]
    /\ mpc' = "load"
    /\ UNCHANGED <<mIdx, all, ch, mout>>
    /\ UNCHANGED notMerge

\* one turn of `for _, path := range mergeFiles`
LoadFile ==
    /\ mpc = "load"
    /\ mIdx < Len(mfiles)
    /\ all' = all \o loadEntries(mfiles[mIdx + 1], mIdx + 1)
    /\ mIdx' = mIdx + 1
    /\ UNCHANGED <<mfiles, ch, mout, mpc>>
    /\ UNCHANGED notMerge

\* sort.SliceStable(all, ...), then every entry is put on ch, which is closed
SortAll ==
    /\ mpc = "load"
    /\ mIdx = Len(mfiles)
    /\ all' = SliceStable(all)
    /\ ch' = SliceStable(all)
    /\ mpc' = "emit"
    /\ UNCHANGED <<mfiles, mIdx, mout>>
    /\ UNCHANGED notMerge

\* one turn of `for entry := range ch` (no -filter given: every entry matches)
EmitOne ==
    /\ mpc = "emit"
    /\ ch # <<>>
    /\ mout' = Append(mout, Head(ch).entry)
    /\ ch' = Tail(ch)
    /\ UNCHANGED <<mfiles, mIdx, all, mpc>>
    /\ UNCHANGED notMerge

\* ch is closed and empty: os.Exit(exitCode)
MergeExit ==
    /\ mpc = "emit"
    /\ ch = <<>>
    /\ mpc' = "done"
    /\ UNCHANGED <<mfiles, mIdx, all, ch, mout>>
    /\ UNCHANGED notMerge

MergeNext ==
    \/ MergeStart
    \/ LoadFile
    \/ SortAll
    \/ EmitOne
    \/ MergeExit

----------------------------------------------------------------------------
(* Stats mode: collectStats. *)

\* key := "(none)"
NoneLabel == <<"(", "n", "o", "n", "e", ")">>

\* the key collectStats counts an entry under
StatKey(entry, field) ==
    IF field \in DOMAIN entry THEN SprintV(entry[field]) ELSE NoneLabel

\* a tally that counts every entry, matching or not
TallyAll(cnt, entry, filters, field) ==
    LET key == StatKey(entry, field)
    IN  MapSet(cnt, key, (IF key \in DOMAIN cnt THEN cnt[key] ELSE 0) + 1)

\* the body of `for entry := range entries`: counts[key]++ when match(entry)
Tally(cnt, entry, filters, field) ==
    IF CompositeMatch(filters, entry)
    THEN LET key == StatKey(entry, field)
         IN  MapSet(cnt, key, (IF key \in DOMAIN cnt THEN cnt[key] ELSE 0) + 1)
    ELSE cnt

\* a comparison that puts the smaller count first
StatLessAscending(x, y) ==
    IF x.Count # y.Count THEN x.Count < y.Count ELSE StrLess(x.Value, y.Value)

\* the less function given to sort.Slice
StatLess(x, y) ==
    IF x.Count # y.Count THEN x.Count > y.Count ELSE StrLess(x.Value, y.Value)

\* sort.Slice on a slice of up to 12 elements is an insertion sort: each
\* element moves left while it is less than its left neighbour
RECURSIVE StatInsert(_, _)
StatInsert(sorted, x) ==
    IF sorted = <<>> \/ ~StatLess(x, sorted[Len(sorted)])
    THEN Append(sorted, x)
    ELSE Append(StatInsert(SubSeq(sorted, 1, Len(sorted) - 1), x),
                sorted[Len(sorted)])

RECURSIVE SortSlice(_)
SortSlice(seq) ==
    IF seq = <<>> THEN <<>>
    ELSE StatInsert(SortSlice(SubSeq(seq, 1, Len(seq) - 1)), seq[Len(seq)])

\* the orders in which `for v, n := range counts` may visit the keys
IterationOrders(cnt) ==
    {order \in [1..Cardinality(DOMAIN cnt) -> DOMAIN cnt] :
        \A i, j \in DOMAIN order : i # j => order[i] # order[j]}

KeyA == <<"a">>
KeyB == <<"b">>

\* the entries of the model's stats runs: field a absent, "a", "(none)" or
\* true; field b absent or "a"
StatEntries ==
    {e \in UNION {[keys -> {StrVal(<<"a">>), StrVal(NoneLabel), BoolVal(TRUE)}] :
                     keys \in SUBSET {KeyA, KeyB}} :
        KeyB \in DOMAIN e => e[KeyB] = StrVal(<<"a">>)}

\* composite with no -filter flag, and with -filter b=a
StatFilterLists == {<<>>, <<NewFieldFilter(<<"b", "=", "a">>)>>}

StatsInit ==
    /\ tinput = <<>>
    /\ tentries = <<>>
    /\ tfilters = <<>>
    /\ tfield = <<>>
    /\ counts = <<>>
    /\ tresult = <<>>
    /\ tpc = "idle"

\* collectStats(entries, composite.Match, *statsField) is called
StatsCall ==
    /\ tpc = "idle"
    /\ tinput' \in UNION {[1..n -> StatEntries] : n \in 0..MaxStats}
    /\ tentries' = tinput'
    /\ tfilters' \in StatFilterLists
    /\ tfield' \in {KeyA, KeyB}
    /\ tpc' = "tally"
    /\ UNCHANGED <<counts, tresult>>
    /\ UNCHANGED notStats

\* one turn of `for entry := range entries`
StatsTally ==
    /\ tpc = "tally"
    /\ tentries # <<>>
    /\ counts' = Tally(counts, Head(tentries), tfilters, tfield)
    /\ tentries' = Tail(tentries)
    /\ UNCHANGED <<tinput, tfilters, tfield, tresult, tpc>>
    /\ UNCHANGED notStats

\* the channel is closed and empty: the map is copied to a slice in the
\* order the map iteration happens to take, and the slice is sorted
StatsFinish ==
    /\ tpc = "tally"
    /\ tentries = <<>>
    /\ \E order \in IterationOrders(counts) :
          tresult' = SortSlice([i \in DOMAIN order |->
                                   [Value |-> order[i], Count |-> counts[order[i]]]])
    /\ tpc' = "done"
    /\ UNCHANGED <<tinput, tentries, tfilters, tfield, counts>>
    /\ UNCHANGED notStats

StatsNext ==
    \/ StatsCall
    \/ StatsTally
    \/ StatsFinish

----------------------------------------------------------------------------
(* Single-source mode: the normal pipeline of main.  The producer and the  *)
(* two channels are the parser's; the task ranging over `errors` is the    *)
(* goroutine main starts, whose every receive is followed by its Fprintf   *)
(* to stderr; the task ranging over `entries` is main itself.              *)

\* composite with no -filter flag, and with -filter a=1
RunFilterLists == {<<>>, <<NewFieldFilter(<<"a", "=", "1">>)>>}

RunInit ==
    /\ runPc = "idle"
    /\ runFilters = <<>>
    /\ fmtPos = 0
    /\ formatted = <<>>
    /\ exitCode = 0

\* main has compiled the -filter flags into composite; exitCode := 0
RunStart ==
    /\ runPc = "idle"
    /\ runFilters' \in RunFilterLists
    /\ runPc' = "running"
    /\ UNCHANGED <<fmtPos, formatted, exitCode>>
    /\ UNCHANGED pvars
    /\ UNCHANGED notRun

\* entries, errs := p.Parse(r); go func() { for err := range errs ... }()
RunParse ==
    /\ runPc = "running"
    /\ Parse(TRUE)

\* a step of the parser's goroutine
RunProducer ==
    /\ runPc = "running"
    /\ (Scan \/ SendErr \/ CloseErrors \/ CloseEntries)

\* a step of the goroutine that prints the parse errors
RunReport ==
    /\ runPc = "running"
    /\ (RecvErr \/ ErrsDone)

\* main is at `for entry := range entries` and receives a Record
RunReceive ==
    /\ runPc = "running"
    /\ fmtPos = Len(got)
    /\ SendEntry

\* exitCode after a Format call: set to 1 when it returned an error
ExitCodeAfter(code, failed) == IF failed THEN 1 ELSE code

\* a loop body that also leaves the loop when Format fails (break)
AfterFormatBreaks(failed) == IF failed THEN "exited" ELSE "running"

\* the loop body goes on to the next Record whatever Format returned
AfterFormat(failed) == "running"

\* the body of the loop on the Record just received: composite.Match, and
\* for a match fmt_.Format(os.Stdout, entry), which returns what the write
\* to stdout returned
RunFormat ==
    /\ runPc = "running"
    /\ fmtPos < Len(got)
    /\ LET rec == got[fmtPos + 1]
       IN  IF CompositeMatch(runFilters, rec.entry)
           THEN \E failed \in BOOLEAN :
                   /\ formatted' = Append(formatted,
                                          [line |-> rec.line, failed |-> failed])
                   /\ exitCode' = ExitCodeAfter(exitCode, failed)
                   /\ runPc' = AfterFormat(failed)
           ELSE UNCHANGED <<formatted, exitCode, runPc>>
    /\ fmtPos' = fmtPos + 1
    /\ UNCHANGED runFilters
    /\ UNCHANGED pvars
    /\ UNCHANGED notRun

\* `entries` is closed: the loop ends
RunLoopEnd ==
    /\ runPc = "running"
    /\ fmtPos = Len(got)
    /\ EntriesDone

\* os.Exit(exitCode): the process ends, and every goroutine with it
RunExit ==
    /\ runPc = "running"
    /\ rpc = "done"
    /\ runPc' = "exited"
    /\ UNCHANGED <<runFilters, fmtPos, formatted, exitCode>>
    /\ UNCHANGED pvars
    /\ UNCHANGED notRun

RunNext ==
    \/ RunStart
    \/ RunParse
    \/ RunProducer
    \/ RunReport
    \/ RunReceive
    \/ RunFormat
    \/ RunLoopEnd
    \/ RunExit

----------------------------------------------------------------------------
(* parseLogfmt on lines of its own. *)

\* the bytes of the model's logfmt lines: a letter, '=', the two kinds of
\* whitespace a line can hold, the quote and the backslash
LogfmtBytes == {"a", "=", " ", "\t", "\"", "\\"}

LogfmtLines == UNION {[1..n -> LogfmtBytes] : n \in 0..MaxLogfmt}

LogfmtInit ==
    /\ lfLine = <<>>
    /\ lfResult = [err |-> FALSE, entry |-> EmptyEntry]
    /\ lfPc = "idle"

\* parseLogfmt(line) is called
LogfmtCall ==
    /\ lfPc = "idle"
    /\ lfLine' \in LogfmtLines
    /\ lfPc' = "called"
    /\ UNCHANGED lfResult
    /\ UNCHANGED notLogfmt

\* parseLogfmt returns
LogfmtReturn ==
    /\ lfPc = "called"
    /\ lfResult' = parseLogfmt(lfLine)
    /\ lfPc' = "done"
    /\ UNCHANGED lfLine
    /\ UNCHANGED notLogfmt

LogfmtNext ==
    \/ LogfmtCall
    \/ LogfmtReturn

----------------------------------------------------------------------------
(* CompositeFilter.Match on composites of several children. *)

\* the child filters of the model's composites: a=a, a!=a, b=a and a~a
ChildFilters ==
    { NewFieldFilter(<<"a", "=", "a">>), NewFieldFilter(<<"a", "!", "=", "a">>),
      NewFieldFilter(<<"b", "=", "a">>), NewFieldFilter(<<"a", "~", "a">>) }

\* the entries given to the composites: fields a and b, each absent, "a"
\* or "b"
CompositeEntries ==
    UNION {[keys -> {StrVal(<<"a">>), StrVal(<<"b">>)}] :
              keys \in SUBSET {<<"a">>, <<"b">>}}

CompositeInit ==
    /\ cfilters = <<>>
    /\ centry = EmptyEntry
    /\ cmatched = FALSE
    /\ cpc = "idle"

\* cf := NewCompositeFilter(filters...), and cf.Match(entry) is called
CompositeCall ==
    /\ cpc = "idle"
    /\ cfilters' \in UNION {[1..n -> ChildFilters] : n \in 0..MaxChildren}
    /\ centry' \in CompositeEntries
    /\ cpc' = "called"
    /\ UNCHANGED cmatched
    /\ UNCHANGED notComposite

\* cf.Match returns
CompositeReturn ==
    /\ cpc = "called"
    /\ cmatched' = CompositeMatch(cfilters, centry)
    /\ cpc' = "done"
    /\ UNCHANGED <<cfilters, centry>>
    /\ UNCHANGED notComposite

CompositeNext ==
    \/ CompositeCall
    \/ CompositeReturn

----------------------------------------------------------------------------
(* The set-up of main, down to the pipelines.  A source is described by    *)
(* whether os.Open succeeds on it and by how many Records and how many     *)
(* per-line errors its parser gives; the pipelines themselves are the      *)
(* subject of the merge, stats, run and parser components.                 *)

\* the -filter expressions of the model: one that compiles and one with no
\* operator
FilterFlagExprs == {<<"a", "=", "a">>, <<"a">>}

\* a source: os.Open succeeds or not; its parser emits `records` Records and
\* `errors` errors.  A missing file, an empty one, one good line, and one
\* good line with one malformed line.
Sources ==
    {[opens |-> FALSE, records |-> 0, errors |-> 0],
     [opens |-> TRUE, records |-> 0, errors |-> 0],
     [opens |-> TRUE, records |-> 1, errors |-> 0],
     [opens |-> TRUE, records |-> 1, errors |-> 1]}

\* the command lines of the model
CommandLines ==
    [version  : BOOLEAN,      \* -version
     file     : BOOLEAN,      \* -file given (else stdin)
     source   : Sources,      \* the -file source, or stdin
     inputOk  : BOOLEAN,      \* -input is json, logfmt or auto
     formatOk : BOOLEAN,      \* -format is json, text or logfmt
     filters  : UNION {[1..n -> FilterFlagExprs] : n \in 0..MaxFilterFlags},
     merge    : UNION {[1..n -> Sources] : n \in 0..MaxMergeFlags}]

SetupInit ==
    /\ flags = [version |-> FALSE, file |-> FALSE,
                source |-> [opens |-> TRUE, records |-> 0, errors |-> 0],
                inputOk |-> TRUE, formatOk |-> TRUE,
                filters |-> <<>>, merge |-> <<>>]
    /\ sPc = "idle"
    /\ sIdx = 0
    /\ sStatus = 0
    /\ sStarts = 0
    /\ sLoaded = 0
    /\ sReported = 0
    /\ sProcessed = 0
    /\ sCompileFailed = FALSE
    /\ sOpenFailed = FALSE

\* os.Exit(code)
SetupExit(code) ==
    /\ sPc' = "exited"
    /\ sStatus' = code

\* flag.Parse()
SetupFlags ==
    /\ sPc = "idle"
    /\ flags' \in CommandLines
    /\ sPc' = "checks"
    /\ UNCHANGED <<sIdx, sStatus, sStarts, sLoaded, sReported, sProcessed,
                   sCompileFailed, sOpenFailed>>
    /\ UNCHANGED notSetup

\* -version prints and exits 0; --file with --merge exits 1
SetupChecks ==
    /\ sPc = "checks"
    /\ IF flags.version THEN SetupExit(0)
       ELSE IF flags.file /\ flags.merge # <<>> THEN SetupExit(1)
       ELSE sPc' = "input" /\ UNCHANGED sStatus
    /\ UNCHANGED <<flags, sIdx, sStarts, sLoaded, sReported, sProcessed,
                   sCompileFailed, sOpenFailed>>
    /\ UNCHANGED notSetup

\* without --merge: open -file (or take stdin) and choose the parser
SetupInput ==
    /\ sPc = "input"
    /\ IF flags.merge = <<>> /\ flags.file /\ ~flags.source.opens
       THEN sOpenFailed' = TRUE /\ SetupExit(1)
       ELSE IF flags.merge = <<>> /\ ~flags.inputOk
       THEN UNCHANGED sOpenFailed /\ SetupExit(1)
       ELSE UNCHANGED <<sOpenFailed, sStatus>> /\ sPc' = "filters"
    /\ UNCHANGED <<flags, sIdx, sStarts, sLoaded, sReported, sProcessed,
                   sCompileFailed>>
    /\ UNCHANGED notSetup

\* a loop over the -filter flags that leaves out the ones that do not compile
AfterCompileSkipsBad(failed) == "filters"

\* where main goes after NewFieldFilter: os.Exit(1) when it returned an error
AfterCompile(failed) == IF failed THEN "exited" ELSE "filters"

\* one turn of `for _, f := range filters`
SetupFilter ==
    /\ sPc = "filters"
    /\ sIdx < Len(flags.filters)
    /\ LET failed == NewFieldFilter(flags.filters[sIdx + 1]).err # "nil"
       IN  /\ sCompileFailed' = (sCompileFailed \/ failed)
           /\ sPc' = AfterCompile(failed)
           /\ sStatus' = IF AfterCompile(failed) = "exited" THEN 1 ELSE sStatus
    /\ sIdx' = sIdx + 1
    /\ UNCHANGED <<flags, sStarts, sLoaded, sReported, sProcessed, sOpenFailed>>
    /\ UNCHANGED notSetup

\* the filters are compiled: choose the formatter, then the pipeline
SetupFormatter ==
    /\ sPc = "filters"
    /\ sIdx = Len(flags.filters)
    /\ IF ~flags.formatOk THEN SetupExit(1)
       ELSE /\ sPc' = IF flags.merge # <<>> THEN "merge" ELSE "normal"
            /\ UNCHANGED sStatus
    /\ sIdx' = 0
    /\ UNCHANGED <<flags, sStarts, sLoaded, sReported, sProcessed,
                   sCompileFailed, sOpenFailed>>
    /\ UNCHANGED notSetup

\* one turn of `for _, path := range mergeFiles`: os.Open, sniffFormat and
\* loadEntries, which starts the parser and a goroutine that prints its
\* errors and returns once the Records are in
SetupMergeFile ==
    /\ sPc = "merge"
    /\ sIdx < Len(flags.merge)
    /\ LET src == flags.merge[sIdx + 1]
       IN  IF ~src.opens
           THEN /\ sOpenFailed' = TRUE
                /\ SetupExit(1)
                /\ UNCHANGED <<sStarts, sLoaded, sReported>>
           ELSE /\ sStarts' = sStarts + 1
                /\ sLoaded' = sLoaded + src.records
                /\ sReported' \in sReported..(sReported + src.errors)
                /\ UNCHANGED <<sOpenFailed, sPc, sStatus>>
    /\ sIdx' = sIdx + 1
    /\ UNCHANGED <<flags, sProcessed, sCompileFailed>>
    /\ UNCHANGED notSetup

\* every file is loaded: sort, put the Records through the filter and the
\* formatter (or collectStats) and exit; the status is 1 when a Format call
\* failed
SetupMergeEmit ==
    /\ sPc = "merge"
    /\ sIdx = Len(flags.merge)
    /\ sProcessed' = sLoaded
    /\ \E code \in {0, 1} : (code = 1 => sLoaded > 0) /\ SetupExit(code)
    /\ UNCHANGED <<flags, sIdx, sStarts, sLoaded, sReported, sCompileFailed,
                   sOpenFailed>>
    /\ UNCHANGED notSetup

\* the normal pipeline: p.Parse(r) and the loop over its Records
SetupNormal ==
    /\ sPc = "normal"
    /\ sStarts' = sStarts + 1
    /\ sProcessed' = flags.source.records
    /\ sReported' \in 0..flags.source.errors
    /\ \E code \in {0, 1} :
          (code = 1 => flags.source.records > 0) /\ SetupExit(code)
    /\ UNCHANGED <<flags, sIdx, sLoaded, sCompileFailed, sOpenFailed>>
    /\ UNCHANGED notSetup

SetupNext ==
    \/ SetupFlags
    \/ SetupChecks
    \/ SetupInput
    \/ SetupFilter
    \/ SetupFormatter
    \/ SetupMergeFile
    \/ SetupMergeEmit
    \/ SetupNormal

----------------------------------------------------------------------------
(* The timestamp of a Record: parseTimestampForSort for the merge order,   *)
(* extractString for the text renderer.                                    *)

\* the loop of extractString from the k-th key on
RECURSIVE ExtractFrom(_, _, _)
ExtractFrom(entry, keys, k) ==
    IF k > Len(keys) THEN <<>>
    ELSE IF keys[k] \in DOMAIN entry THEN SprintV(entry[keys[k]])
    ELSE ExtractFrom(entry, keys, k + 1)

\* extractString(entry, keys...): the first key found, as a string
extractString(entry, keys) == ExtractFrom(entry, keys, 1)

\* what a timestamp field of the model holds
TimestampValues == {TsJunk, TsUnix, TsRFC, TsLate}

\* the entries of the model: each of time, ts, timestamp absent or present
TimestampEntries ==
    UNION {[keys -> {StrVal(v) : v \in TimestampValues}] :
              keys \in SUBSET {KeyTime, KeyTs, KeyTimestamp}}

TimestampInit ==
    /\ tsEntry = EmptyEntry
    /\ tsSort = ZeroTime
    /\ tsShown = <<>>
    /\ tsPc = "idle"

\* a Record reaches loadEntries and, later, TextFormatter.Format
TimestampCall ==
    /\ tsPc = "idle"
    /\ tsEntry' \in TimestampEntries
    /\ tsPc' = "called"
    /\ UNCHANGED <<tsSort, tsShown>>
    /\ UNCHANGED notTimestamp

\* t: parseTimestampForSort(entry) in loadEntries;
\* timestamp := extractString(entry, "time", "ts", "timestamp") in Format
TimestampReturn ==
    /\ tsPc = "called"
    /\ tsSort' = parseTimestampForSort(tsEntry)
    /\ tsShown' = extractString(tsEntry, TimeKeys)
    /\ tsPc' = "done"
    /\ UNCHANGED tsEntry
    /\ UNCHANGED notTimestamp

TimestampNext ==
    \/ TimestampCall
    \/ TimestampReturn

----------------------------------------------------------------------------
(* loadEntries on a JSON file.  A LogEntry is a Go map: a reference that   *)
(* may be nil, so a Record here is [isNil, fields].                        *)

LineObject  == <<"{", "}">>
LineNull    == <<"n", "u", "l", "l">>
LineSourced ==
    <<"{", "\"", "_", "s", "o", "u", "r", "c", "e", "\"", ":",
      "\"", "x", "\"", "}">>
LineTimed ==
    <<"{", "\"", "t", "s", "\"", ":", "\"", "1", "7", "0", "0",
      "0", "0", "0", "0", "0", "0", "\"", "}">>
LineBad     == <<"x">>

\* the lines of the model's files
LoadLines == {LineObject, LineNull, LineSourced, LineTimed, LineBad}

\* var entry LogEntry; json.Unmarshal([]byte(line), &entry) on the lines of
\* LoadLines: an object fills a new map; null leaves entry nil and is no
\* error; "x" is not a JSON value
UnmarshalEntry(line) ==
    CASE line = LineObject ->
             [err |-> FALSE, isNil |-> FALSE, fields |-> EmptyEntry]
      [] line = LineNull ->
             [err |-> FALSE, isNil |-> TRUE, fields |-> EmptyEntry]
      [] line = LineSourced ->
             [err |-> FALSE, isNil |-> FALSE,
              fields |-> MapSet(EmptyEntry, KeySource, StrVal(<<"x">>))]
      [] line = LineTimed ->
             [err |-> FALSE, isNil |-> FALSE,
              fields |-> MapSet(EmptyEntry, KeyTs, StrVal(TsUnix))]
      [] OTHER ->
             [err |-> TRUE, isNil |-> TRUE, fields |-> EmptyEntry]

\* the Records JSONParser.Parse sends for these lines, in order: one for
\* every line that decodes
RECURSIVE ParsedRecords(_)
ParsedRecords(lines) ==
    IF lines = <<>> THEN <<>>
    ELSE LET d == UnmarshalEntry(Head(lines))
         IN  IF d.err THEN ParsedRecords(Tail(lines))
             ELSE <<[isNil |-> d.isNil, fields |-> d.fields]>>
                  \o ParsedRecords(Tail(lines))

LoadInit ==
    /\ ldInput = <<>>
    /\ ldTaken = 0
    /\ ldResult = <<>>
    /\ ldPc = "idle"

\* loadEntries(r, p, source) is called
LoadCall ==
    /\ ldPc = "idle"
    /\ ldInput' \in UNION {[1..n -> LoadLines] : n \in 0..MaxLoad}
    /\ ldPc' = "loading"
    /\ UNCHANGED <<ldTaken, ldResult>>
    /\ UNCHANGED notLoad

\* entry["_source"] = source: an assignment into a nil map panics
AfterTag(isNil) == IF isNil THEN "panicked" ELSE "loading"

\* one turn of `for entry := range entries`
LoadTurn ==
    /\ ldPc = "loading"
    /\ ldTaken < Len(ParsedRecords(ldInput))
    /\ LET rec   == ParsedRecords(ldInput)[ldTaken + 1]
           entry == MapSet(rec.fields, KeySource, StrVal(SourceLabel(1)))
       IN  /\ ldPc' = AfterTag(rec.isNil)
           /\ ldResult' = IF AfterTag(rec.isNil) = "panicked" THEN ldResult
                          ELSE Append(ldResult,
                                      [entry |-> entry,
                                       t |-> parseTimestampForSort(entry)])
    /\ ldTaken' = ldTaken + 1
    /\ UNCHANGED ldInput
    /\ UNCHANGED notLoad

\* entries is closed: return result
LoadReturn ==
    /\ ldPc = "loading"
    /\ ldTaken = Len(ParsedRecords(ldInput))
    /\ ldPc' = "returned"
    /\ UNCHANGED <<ldInput, ldTaken, ldResult>>
    /\ UNCHANGED notLoad

LoadNext ==
    \/ LoadCall
    \/ LoadTurn
    \/ LoadReturn

----------------------------------------------------------------------------
(* LogfmtFormatter.Format, and parseLogfmt on the line it writes. *)

\* sort.Strings on the keys of an entry: the least key, then the others
RECURSIVE SortStrings(_)
SortStrings(keys) ==
    IF keys = {} THEN <<>>
    ELSE LET least == CHOOSE k \in keys : \A j \in keys : ~StrLess(j, k)
         IN  <<least>> \o SortStrings(keys \ {least})

\* strings.ContainsAny(v, chars)
ContainsAny(v, chars) == \E i \in 1..Len(v) : v[i] \in chars

\* strings.ReplaceAll(v, `"`, `\"`)
RECURSIVE EscapeQuotes(_)
EscapeQuotes(v) ==
    IF v = <<>> THEN <<>>
    ELSE (IF Head(v) = "\"" THEN <<"\\", "\"">> ELSE <<Head(v)>>)
         \o EscapeQuotes(Tail(v))

\* one part of the line: fmt.Sprintf("%s=%s", k, v), v quoted when it
\* holds a space, a tab or a double quote
LogfmtPart(k, value) ==
    LET v == SprintV(value)
    IN  k \o <<"=">> \o
        (IF ContainsAny(v, {" ", "\t", "\""})
         THEN <<"\"">> \o EscapeQuotes(v) \o <<"\"">>
         ELSE v)

\* strings.Join(parts, " ") over the sorted keys, from the i-th on
RECURSIVE JoinParts(_, _, _)
JoinParts(entry, keys, i) ==
    IF i > Len(keys) THEN <<>>
    ELSE LogfmtPart(keys[i], entry[keys[i]])
         \o (IF i < Len(keys) THEN <<" ">> ELSE <<>>)
         \o JoinParts(entry, keys, i + 1)

\* what LogfmtFormatter.Format writes to w: the line and, from Fprintln, a
\* newline
LogfmtFormat(entry) ==
    JoinParts(entry, SortStrings(DOMAIN entry), 1) \o <<"\n">>

\* the first line a bufio.Scanner yields from the bytes written: all that is
\* before the first newline
ScanLine(bytes) ==
    IF IndexByte(bytes, "\n") = 0 THEN bytes
    ELSE Slice(bytes, 1, IndexByte(bytes, "\n") - 1)

\* the values of the model: strings of a letter, '=', space, tab, backslash
ValueBytes == {"a", "=", " ", "\t", "\\"}
RoundTripValues == UNION {[1..n -> ValueBytes] : n \in 0..MaxValue}

\* the entries of the model: one or two fields
RoundTripEntries ==
    UNION {[keys -> {StrVal(v) : v \in RoundTripValues}] :
              keys \in (SUBSET {<<"a">>, <<"b">>}) \ {{}}}

RoundTripInit ==
    /\ rtEntry = EmptyEntry
    /\ rtOut = <<>>
    /\ rtResult = [err |-> FALSE, entry |-> EmptyEntry]
    /\ rtPc = "idle"

\* f.Format(w, entry)
RoundTripFormat ==
    /\ rtPc = "idle"
    /\ \E entry \in RoundTripEntries :
          /\ rtEntry' = entry
          /\ rtOut' = LogfmtFormat(entry)
    /\ rtPc' = "formatted"
    /\ UNCHANGED rtResult
    /\ UNCHANGED notRoundTrip

\* parseLogfmt on the line written
RoundTripParse ==
    /\ rtPc = "formatted"
    /\ rtResult' = parseLogfmt(ScanLine(rtOut))
    /\ rtPc' = "parsed"
    /\ UNCHANGED <<rtEntry, rtOut>>
    /\ UNCHANGED notRoundTrip

RoundTripNext ==
    \/ RoundTripFormat
    \/ RoundTripParse

----------------------------------------------------------------------------
(* The three renderers, with the flags at their defaults (-color=false,   *)
(* -pretty=false, no -fields), and the path of one Record from the parser *)
(* through loadEntries (merge mode), the filter and the renderer.  A Go    *)
(* map is a reference: `record` is the map itself, which every stage is    *)
(* handed.                                                                 *)

KeyLevel    == <<"l", "e", "v", "e", "l">>
KeyLvl      == <<"l", "v", "l">>
KeySeverity == <<"s", "e", "v", "e", "r", "i", "t", "y">>
KeyMessage  == <<"m", "e", "s", "s", "a", "g", "e">>
KeyText     == <<"t", "e", "x", "t">>

\* the keys TextFormatter.Format gives to extractString
LevelKeys   == <<KeyLevel, KeyLvl, KeySeverity>>
MessageKeys == <<KeyMessage, KeyMsg, KeyText>>

\* the `canonical` map of TextFormatter.Format
Canonical ==
    {KeyTime, KeyTs, KeyTimestamp, KeyLevel, KeyLvl, KeySeverity,
     KeyMessage, KeyMsg, KeyText}

\* the byte 0x1B that opens an ANSI escape code, as one element of a string
Esc == "ESC"
colorReset == <<Esc, "[", "0", "m">>
colorGray  == <<Esc, "[", "9", "0", "m">>

\* strings.ToUpper on the letters the model's strings hold
LowerLetters ==
    <<"a", "b", "e", "f", "g", "i", "l", "m", "n", "o", "r", "s", "t", "u",
      "v", "x">>
UpperLetters ==
    <<"A", "B", "E", "F", "G", "I", "L", "M", "N", "O", "R", "S", "T", "U",
      "V", "X">>
ToUpper(s) ==
    [i \in 1..Len(s) |->
        IF \E j \in 1..Len(LowerLetters) : LowerLetters[j] = s[i]
        THEN UpperLetters[CHOOSE j \in 1..Len(LowerLetters) :
                              LowerLetters[j] = s[i]]
        ELSE s[i]]

\* fmt.Sprintf("%-5s", s): s, then spaces up to five characters
RECURSIVE PadRight(_, _)
PadRight(s, width) ==
    IF Len(s) >= width THEN s ELSE PadRight(s \o <<" ">>, width)

\* colorizeLevel with Color off
colorizeLevel(level) == <<"[">> \o PadRight(ToUpper(level), 5) \o <<"]">>

\* two decimal digits
TwoDigits(n) == Digits(n \div 10) \o Digits(n % 10)

\* t.Format("15:04:05")
Clock(t) ==
    TwoDigits(t.sec \div 3600) \o <<":">> \o TwoDigits((t.sec % 3600) \div 60)
    \o <<":">> \o TwoDigits(t.sec % 60)

formatTimestamp(value) ==
    IF value = <<>>
    THEN colorGray \o [i \in 1..15 |-> " "] \o colorReset
    ELSE IF SscanFloat(value).ok /\ SscanFloat(value).f > UnixThreshold
    THEN Clock(UnixTime(SscanFloat(value).f))
    ELSE IF ParseRFC3339(value).ok
    THEN Clock(ParseRFC3339(value).t)
    ELSE IF Len(value) > 15 THEN SubSeq(value, 1, 15) ELSE value

\* the extras of TextFormatter.Format, joined: k=v for the sorted keys that
\* are not canonical, from the i-th on
RECURSIVE JoinExtras(_, _, _)
JoinExtras(entry, keys, i) ==
    IF i > Len(keys) THEN <<>>
    ELSE keys[i] \o <<"=">> \o SprintV(entry[keys[i]])
         \o (IF i < Len(keys) THEN <<" ">> ELSE <<>>)
         \o JoinExtras(entry, keys, i + 1)

\* what TextFormatter.Format writes
TextFormat(entry) ==
    LET timestamp == extractString(entry, TimeKeys)
        level     == extractString(entry, LevelKeys)
        message   == extractString(entry, MessageKeys)
        keys      == SortStrings((DOMAIN entry) \ Canonical)
        extaStr   == IF keys = <<>> THEN <<>>
                     ELSE <<" ">> \o JoinExtras(entry, keys, 1)
    IN  formatTimestamp(timestamp) \o <<" ">> \o colorizeLevel(level)
        \o <<" ">> \o message \o extaStr \o <<"\n">>

\* a string as json.Marshal writes it: quoted, '"' and '\' escaped (the
\* model's strings hold no other byte that json.Marshal escapes)
RECURSIVE JSONEscape(_)
JSONEscape(str) ==
    IF str = <<>> THEN <<>>
    ELSE (IF Head(str) \in {"\"", "\\"} THEN <<"\\", Head(str)>>
          ELSE <<Head(str)>>)
         \o JSONEscape(Tail(str))

JSONString(str) == <<"\"">> \o JSONEscape(str) \o <<"\"">>

\* a value as json.Marshal writes it
JSONValue(value) ==
    CASE value.kind = "string" -> JSONString(value.str)
      [] value.kind = "bool"   -> SprintV(value)
      [] value.kind = "number" -> SprintV(value)
      [] OTHER                 -> <<"n", "u", "l", "l">>

\* the members of the object, keys sorted, from the i-th on
RECURSIVE JSONMembers(_, _, _)
JSONMembers(entry, keys, i) ==
    IF i > Len(keys) THEN <<>>
    ELSE JSONString(keys[i]) \o <<":">> \o JSONValue(entry[keys[i]])
         \o (IF i < Len(keys) THEN <<",">> ELSE <<>>)
         \o JSONMembers(entry, keys, i + 1)

\* what JSONFormatter.Format writes with Pretty off: json.Marshal(entry)
\* and a newline
JSONFormat(entry) ==
    <<"{">> \o JSONMembers(entry, SortStrings(DOMAIN entry), 1)
    \o <<"}", "\n">>

\* fmt_.Format(os.Stdout, entry) for the -format chosen
FormatAs(format, entry) ==
    CASE format = "json"   -> JSONFormat(entry)
      [] format = "logfmt" -> LogfmtFormat(entry)
      [] OTHER             -> TextFormat(entry)

\* the Records of the model: any of ts, lvl, msg, _source and a
PipeEntries ==
    {e \in UNION {[keys -> {StrVal(v) : v \in {TsUnix, TsJunk, TsRFC,
                                               <<"e", "r", "r">>, <<"a">>,
                                               <<"x">>}}] :
                     keys \in SUBSET {KeyTs, KeyLvl, KeyMsg, KeySource, <<"a">>}} :
        \A k \in DOMAIN e :
            e[k].str \in (CASE k = KeyTs     -> {TsUnix, TsJunk, TsRFC}
                            [] k = KeyLvl    -> {<<"e", "r", "r">>}
                            [] k = KeySource -> {<<"x">>}
                            [] OTHER         -> {<<"a">>})}

PipeInit ==
    /\ pipeMode = "none"
    /\ pipeFormat = "none"
    /\ pipeFilters = <<>>
    /\ parsed = EmptyEntry
    /\ record = EmptyEntry
    /\ pipeMatched = FALSE
    /\ written = <<>>
    /\ pipePc = "idle"

\* the parser emits a Record, in a run with or without --merge
PipeParse ==
    /\ pipePc = "idle"
    /\ pipeMode' \in {"single", "merge"}
    /\ pipeFormat' \in {"text", "json", "logfmt"}
    /\ pipeFilters' \in UNION {[1..n -> ChildFilters] : n \in 0..MaxChildren}
    /\ \E entry \in PipeEntries : parsed' = entry /\ record' = entry
    /\ pipePc' = IF pipeMode' = "merge" THEN "load" ELSE "match"
    /\ UNCHANGED <<pipeMatched, written>>
    /\ UNCHANGED notPipe

\* loadEntries: entry["_source"] = source
PipeLoad ==
    /\ pipePc = "load"
    /\ record' = MapSet(record, KeySource, StrVal(SourceLabel(1)))
    /\ pipePc' = "match"
    /\ UNCHANGED <<pipeMode, pipeFormat, pipeFilters, parsed, pipeMatched,
                   written>>
    /\ UNCHANGED notPipe

\* if composite.Match(entry)
PipeMatch ==
    /\ pipePc = "match"
    /\ pipeMatched' = CompositeMatch(pipeFilters, record)
    /\ pipePc' = IF CompositeMatch(pipeFilters, record) THEN "format" ELSE "done"
    /\ UNCHANGED <<pipeMode, pipeFormat, pipeFilters, parsed, record, written>>
    /\ UNCHANGED notPipe

\* a renderer that takes out of the entry the message it has written
PipeFormatTakesMessage ==
    /\ pipePc = "format"
    /\ written' = FormatAs(pipeFormat, record)
    /\ record' = [k \in (DOMAIN record) \ {KeyMsg} |-> record[k]]
    /\ pipePc' = "done"
    /\ UNCHANGED <<pipeMode, pipeFormat, pipeFilters, parsed, pipeMatched>>
    /\ UNCHANGED notPipe

\* fmt_.Format(os.Stdout, entry)
PipeFormat ==
    /\ pipePc = "format"
    /\ written' = FormatAs(pipeFormat, record)
    /\ pipePc' = "done"
    /\ UNCHANGED <<pipeMode, pipeFormat, pipeFilters, parsed, record,
                   pipeMatched>>
    /\ UNCHANGED notPipe

PipeNext ==
    \/ PipeParse
    \/ PipeLoad
    \/ PipeMatch
    \/ PipeFormat

----------------------------------------------------------------------------
(* Specifications: one per component, all from the state in which nothing *)
(* has been called yet.                                                    *)

Init ==
    /\ ParserInit
    /\ SniffInit
    /\ FilterInit
    /\ MergeInit
    /\ StatsInit
    /\ RunInit
    /\ LogfmtInit
    /\ CompositeInit
    /\ SetupInit
    /\ TimestampInit
    /\ LoadInit
    /\ RoundTripInit
    /\ PipeInit

SpecParser == Init /\ [][ParserNext]_vars

\* the scheduler runs some goroutine that can take a step (no goroutine's
\* step ever disables another's, so this is all the fairness termination
\* needs)
SpecParserFair ==
    Init /\ [][ParserNextDrained]_vars /\ WF_vars(ParserNextDrained)

\* the same scheduling, with a caller that reads the Record channel only
SpecParserUndrainedFair ==
    Init /\ [][ParserNextUndrained]_vars /\ WF_vars(ParserNextUndrained)

SpecSniff == Init /\ [][SniffNext]_vars

SpecFilter == Init /\ [][FilterNext]_vars

SpecMerge == Init /\ [][MergeNext]_vars

SpecStats == Init /\ [][StatsNext]_vars

SpecRun == Init /\ [][RunNext]_vars

SpecLogfmt == Init /\ [][LogfmtNext]_vars

SpecComposite == Init /\ [][CompositeNext]_vars

SpecSetup == Init /\ [][SetupNext]_vars

SpecTimestamp == Init /\ [][TimestampNext]_vars

SpecLoad == Init /\ [][LoadNext]_vars

SpecRoundTrip == Init /\ [][RoundTripNext]_vars

SpecPipe == Init /\ [][PipeNext]_vars

----------------------------------------------------------------------------
(* Claims about the parsers. *)

IsBlank(line) == TrimSpace(line) = <<>>

\* line i of the input is non-blank and fails to decode
Malformed(i) ==
    /\ ~IsBlank(input[i])
    /\ Decode(variant, TrimSpace(input[i])).err

\* line i of the input is non-blank and decodes
WellFormed(i) ==
    /\ ~IsBlank(input[i])
    /\ ~Decode(variant, TrimSpace(input[i])).err

MalformedLines == {i \in 1..Len(input) : Malformed(i)}

\* the Record of line i has been received from the Record channel
Emitted(i) ==
    \E k \in 1..Len(got) :
        /\ got[k].line = i
        /\ got[k].entry = Decode(variant, TrimSpace(input[i])).entry

\* the second malformed line of the input, when there is one
SecondMalformed ==
    CHOOSE i \in MalformedLines :
        Cardinality({j \in MalformedLines : j < i}) = 1

\* C1: with both channels drained, every well-formed non-blank line of the
\* input, whatever number of malformed lines precede it, is eventually
\* delivered as a Record, by either parser.
C1_MalformedLineNeverStopsParsing ==
    <>(ppc # "idle" /\ \A i \in 1..Len(input) : WellFormed(i) => Emitted(i))

\* a well-formed line that follows two malformed lines has been delivered
C1_Witness ==
    /\ errDrain
    /\ \E i \in 1..Len(input) :
          /\ WellFormed(i)
          /\ Cardinality({j \in MalformedLines : j < i}) >= 2
          /\ Emitted(i)

\* C2: when nothing reads the error channel and the input has two or more
\* malformed lines, the producer never gets past the send of the second
\* error: there it can take no step (nor can anyone else), the Record
\* channel is never closed and no Record of a later line is delivered.
C2_UndrainedErrorsStallProducer ==
    (~errDrain /\ Cardinality(MalformedLines) >= 2) =>
        /\ ~entriesClosed
        /\ ppc \notin {"closeErrors", "closeEntries", "done"}
        /\ lineNum <= SecondMalformed
        /\ \A k \in 1..Len(got) : got[k].line < SecondMalformed
        /\ (lineNum = SecondMalformed) =>
              (ppc = "sendErr" /\ Len(errorsBuf) = ErrCap /\ ~ENABLED ParserNext)

\* the producer is stuck on the second error while a well-formed line waits
C2_Witness ==
    /\ ~errDrain
    /\ Cardinality(MalformedLines) >= 2
    /\ ppc = "sendErr"
    /\ lineNum = SecondMalformed
    /\ \E i \in 1..Len(input) : i > lineNum /\ WellFormed(i)

\* C3: with one task draining each channel and fair scheduling, the
\* producer terminates, both channels end closed, both consumers leave their
\* loops, and as many errors are delivered as there are malformed lines.
C3_DrainedParserTerminates ==
    <>[](/\ ppc = "done"
         /\ errorsClosed
         /\ entriesClosed
         /\ rpc = "done"
         /\ epc = "done"
         /\ errorsBuf = <<>>
         /\ Len(gotErrs) = Cardinality(MalformedLines))

\* a run with more errors than the channel holds has ended, all delivered
C3_Witness ==
    /\ errDrain
    /\ ppc = "done"
    /\ epc = "done"
    /\ rpc = "done"
    /\ Cardinality(MalformedLines) > ErrCap
    /\ Len(gotErrs) = Cardinality(MalformedLines)

----------------------------------------------------------------------------
(* Claims about sniffFormat. *)

\* C4: the reader sniffFormat returns, read to its end, yields exactly the
\* bytes of the original stream, in order, whatever the stream starts with.
C4_SniffedReaderReproducesStream ==
    sniffPc = "done" => out = stream

----------------------------------------------------------------------------
(* Claims about the filter. *)

\* op occurs somewhere in e
Occurs(op, e) ==
    \E i \in 1..Len(e) : i + Len(op) - 1 <= Len(e) /\ SubSeq(e, i, i + Len(op) - 1) = op

\* the operators in their priority order, by name
PriorityOrder ==
    << <<"!", "=">>, <<"~">>, <<">", "=">>, <<"<", "=">>, <<"=">>,
       <<">">>, <<"<">> >>

\* C7: a compiled filter's operator is the first of !=, ~, >=, <=, =, >, <
\* that occurs anywhere in the expression; the split is at that operator's
\* leftmost occurrence; Field, Operator and Value joined give the expression
\* back; an expression with != never compiles to =, one with >= never to >.
C7_OperatorPriority ==
    fpc \in {"compiled", "matched"} =>
        /\ \E k \in 1..Len(PriorityOrder) :
              /\ filt.Operator = PriorityOrder[k]
              /\ \A j \in 1..(k - 1) : ~Occurs(PriorityOrder[j], expr)
        /\ filt.Field \o filt.Operator \o filt.Value = expr
        /\ \A i \in 1..Len(filt.Field) :
              Slice(expr, i, i + Len(filt.Operator) - 1) # filt.Operator
        /\ Occurs(<<"!", "=">>, expr) => filt.Operator # <<"=">>
        /\ Occurs(<<">", "=">>, expr) => filt.Operator # <<">">>

\* "=!=" compiled: an "=" stands left of the "!=", which is chosen all the same
C7_Witness ==
    /\ fpc = "compiled"
    /\ filt.Operator = <<"!", "=">>
    /\ Occurs(<<"=">>, filt.Field)

\* C8: on a Record that lacks the filter's field Match returns false,
\* whatever the operator.
C8_MissingFieldNeverMatches ==
    (fpc = "matched" /\ filt.Field \notin DOMAIN fentry) => matched = FALSE

\* a != filter has been evaluated on a Record without its field
C8_Witness ==
    /\ fpc = "matched"
    /\ filt.Operator = <<"!", "=">>
    /\ filt.Field \notin DOMAIN fentry
    /\ fentry # EmptyEntry
    /\ matched = FALSE

----------------------------------------------------------------------------
(* Claims about merge mode. *)

\* the entry has a usable timestamp: one of its time, ts, timestamp fields
\* reads as a Unix time or as an RFC 3339 date-time
HasUsableTimestamp(entry) ==
    \E k \in 1..Len(TimeKeys) :
        /\ TimeKeys[k] \in DOMAIN entry
        /\ LET str == SprintV(entry[TimeKeys[k]])
           IN  \/ (SscanFloat(str).ok /\ SscanFloat(str).f > UnixThreshold)
               \/ ParseRFC3339(str).ok

\* C5: after the sort the sequence is non-decreasing in parsed timestamp, and
\* every record without a usable timestamp stands before every record that
\* has one.
C5_MergeOrderTimestampLessFirst ==
    mpc \in {"emit", "done"} =>
        /\ \A p, q \in 1..Len(all) : p < q => ~Before(all[q].t, all[p].t)
        /\ \A p, q \in 1..Len(all) :
              (~HasUsableTimestamp(all[p].entry) /\ HasUsableTimestamp(all[q].entry))
                  => p < q

\* C6: the sort is stable: of two records with equal parsed timestamps the
\* one from the earlier file, or from the same file and an earlier line,
\* stands first after the sort, and records are emitted in that order.
C6_MergeSortStable ==
    mpc \in {"emit", "done"} =>
        /\ \A p, q \in 1..Len(all) :
              (p < q /\ ~Before(all[p].t, all[q].t) /\ ~Before(all[q].t, all[p].t))
                  => \/ all[p].src < all[q].src
                     \/ (all[p].src = all[q].src /\ all[p].pos < all[q].pos)
        /\ \A p \in 1..Len(mout) : mout[p] = all[p].entry

\* all is emitted; a record with a later timestamp came first in its file,
\* and two records with equal timestamps, one of each file, follow each other
C6_Witness ==
    /\ mpc = "done"
    /\ Len(mout) = Len(all)
    /\ \E p, q \in 1..Len(all) :
          /\ p < q
          /\ all[p].t = all[q].t
          /\ all[p].src < all[q].src
    /\ \E p, q \in 1..Len(all) :
          /\ p < q
          /\ all[p].src = all[q].src
          /\ all[p].pos > all[q].pos

----------------------------------------------------------------------------
(* Claims about stats mode. *)

\* the input entries that match the filter
Matching == {i \in 1..Len(tinput) : CompositeMatch(tfilters, tinput[i])}

\* how many matching entries of the input have the string form v in the
\* stats field; for "(none)", also those that lack the field
TallyOf(v) ==
    Cardinality({i \in Matching :
        IF tfield \in DOMAIN tinput[i]
        THEN SprintV(tinput[i][tfield]) = v
        ELSE v = NoneLabel})

\* the labels the matching entries of the input are counted under
Labels ==
    {IF tfield \in DOMAIN tinput[i] THEN SprintV(tinput[i][tfield]) ELSE NoneLabel :
        i \in Matching}

RECURSIVE SumCounts(_)
SumCounts(list) ==
    IF list = <<>> THEN 0 ELSE Head(list).Count + SumCounts(Tail(list))

\* C9: the list collectStats returns is in descending order of count, equal
\* counts in ascending order of value; it holds one row per label with that
\* label's number of matching entries, so it is the same list for every
\* arrival order of the same entries and every map iteration order.
C9_StatsOrderDeterministic ==
    tpc = "done" =>
        /\ \A i, j \in 1..Len(tresult) :
              i < j => \/ tresult[i].Count > tresult[j].Count
                       \/ /\ tresult[i].Count = tresult[j].Count
                          /\ StrLess(tresult[i].Value, tresult[j].Value)
        /\ {tresult[i] : i \in 1..Len(tresult)}
              = {[Value |-> v, Count |-> TallyOf(v)] : v \in Labels}

\* three labels came in, not in alphabetical order, two of them with equal
\* counts below the third's
C9_Witness ==
    /\ tpc = "done"
    /\ Len(tresult) = 3
    /\ tresult[1].Count > tresult[2].Count
    /\ tresult[2].Count = tresult[3].Count
    /\ StatKey(tinput[1], tfield) = tresult[3].Value

\* C10: collectStats tallies exactly the matching entries: the counts add up
\* to the number of matching entries, every matching entry without the field
\* is counted in the "(none)" row, each label has exactly one row, with a
\* count of at least 1 that is its number of matching entries (so entries
\* that do not match add nothing), and an empty input gives an empty list.
C10_StatsTallyExact ==
    tpc = "done" =>
        /\ SumCounts(tresult) = Cardinality(Matching)
        /\ \A i \in 1..Len(tresult) :
              /\ tresult[i].Count >= 1
              /\ tresult[i].Count = TallyOf(tresult[i].Value)
              /\ \A j \in 1..Len(tresult) :
                    tresult[i].Value = tresult[j].Value => i = j
        /\ \A v \in Labels : \E i \in 1..Len(tresult) : tresult[i].Value = v
        /\ Cardinality({i \in Matching : tfield \notin DOMAIN tinput[i]}) > 0
              => \E i \in 1..Len(tresult) :
                    /\ tresult[i].Value = NoneLabel
                    /\ tresult[i].Count >=
                          Cardinality({k \in Matching : tfield \notin DOMAIN tinput[k]})
        /\ tinput = <<>> => tresult = <<>>

\* a run with an entry the filter rejects, a matching entry without the
\* field and a matching entry with it
C10_Witness ==
    /\ tpc = "done"
    /\ Cardinality(Matching) < Len(tinput)
    /\ \E i \in Matching : tfield \notin DOMAIN tinput[i]
    /\ \E i \in Matching : tfield \in DOMAIN tinput[i]
    /\ Len(tresult) >= 2

----------------------------------------------------------------------------
(* Claims about single-source mode. *)

\* the lines of the input whose Record the filter lets through, in order
RECURSIVE MatchingLines(_)
MatchingLines(n) ==
    IF n = 0 THEN <<>>
    ELSE LET line == TrimSpace(input[n])
             d    == Decode(variant, line)
         IN  IF line # <<>> /\ ~d.err /\ CompositeMatch(runFilters, d.entry)
             THEN Append(MatchingLines(n - 1), n)
             ELSE MatchingLines(n - 1)

\* C11: in single-source mode a Format call that fails does not stop the
\* stream: when the run ends, Format has been called once for every Record
\* that matches the filter, in input order, those after a failed call
\* included; and the exit status is 1 exactly when some Format call failed.
C11_FormatFailureDoesNotHalt ==
    runPc = "exited" =>
        /\ [i \in 1..Len(formatted) |-> formatted[i].line]
              = MatchingLines(Len(input))
        /\ (exitCode = 1) <=> (\E i \in 1..Len(formatted) : formatted[i].failed)
        /\ exitCode \in {0, 1}

\* a run in which a Format call failed, a later Record was formatted
\* without failure, and a Record was filtered out
C11_Witness ==
    /\ runPc = "exited"
    /\ Len(formatted) = 2
    /\ formatted[1].failed
    /\ ~formatted[2].failed
    /\ Len(got) = 3
    /\ exitCode = 1

\* C12: when the run ends, every decode error the parser produced has been
\* received and printed by the error-draining goroutine.
C12_EveryDecodeErrorReported ==
    runPc = "exited" => Len(gotErrs) = Cardinality(MalformedLines)

----------------------------------------------------------------------------
(* More claims about the parsers. *)

\* how many of the received Records, and of the received errors, are line i's
RecordsOf(i) == Cardinality({k \in 1..Len(got) : got[k].line = i})
ErrorsOf(i) == Cardinality({k \in 1..Len(gotErrs) : gotErrs[k].line = i})

\* both consumers have run to the end of their channel
BothDrained == errDrain /\ rpc = "done" /\ epc = "done"

\* C13: with both channels drained, every non-blank line of the input has
\* given exactly one outcome, a Record or an error and not both, every blank
\* line has given neither, and so Records plus errors received is the number
\* of non-blank lines.  At no time has a line given more than one outcome.
C13_OneOutcomePerNonBlankLine ==
    /\ \A i \in 1..Len(input) : RecordsOf(i) + ErrorsOf(i) <= 1
    /\ BothDrained =>
          /\ \A i \in 1..Len(input) :
                RecordsOf(i) + ErrorsOf(i) = (IF IsBlank(input[i]) THEN 0 ELSE 1)
          /\ Len(got) + Len(gotErrs)
                = Cardinality({i \in 1..Len(input) : ~IsBlank(input[i])})

\* a drained run over a blank line, a line that decoded and one that did not
C13_Witness ==
    /\ BothDrained
    /\ Len(input) = 3
    /\ \E i \in 1..3 : input[i] = <<" ">>
    /\ Len(got) = 1
    /\ Len(gotErrs) = 1

\* C14: Records are received in the order of their lines: the line numbers
\* of the Records received so far are strictly increasing, and each Record
\* is the decoding of its line.
C14_RecordsInInputOrder ==
    /\ \A k, l \in 1..Len(got) : k < l => got[k].line < got[l].line
    /\ \A k \in 1..Len(got) :
          /\ got[k].line \in 1..Len(input)
          /\ WellFormed(got[k].line)
          /\ got[k].entry = Decode(variant, TrimSpace(input[got[k].line])).entry

\* two Records received, with a line between them that gave none
C14_Witness ==
    /\ Len(got) = 2
    /\ got[1].line = 1
    /\ got[2].line = 3
    /\ got[1].entry # got[2].entry

\* the per-line errors received so far
DecodeErrors == {k \in 1..Len(gotErrs) : gotErrs[k].cause = "decode"}

\* C15: the N of every received "line N: <cause>" error is the 1-based
\* position, among all lines of the input given to Parse (blank ones
\* counted), of a line that is malformed; errors arrive in line order and no
\* two carry the same N.
C15_ErrorLineNumberIsPosition ==
    /\ \A k \in DecodeErrors :
          /\ gotErrs[k].line \in 1..Len(input)
          /\ Malformed(gotErrs[k].line)
    /\ \A k, l \in DecodeErrors : k < l => gotErrs[k].line < gotErrs[l].line
    /\ BothDrained => {gotErrs[k].line : k \in DecodeErrors} = MalformedLines

\* the error of a malformed third line that follows a blank line
C15_Witness ==
    /\ Len(input) = 3
    /\ IsBlank(input[1]) \/ IsBlank(input[2])
    /\ \E k \in DecodeErrors : gotErrs[k].line = 3

----------------------------------------------------------------------------
(* Claims about parseLogfmt. *)

\* the first whitespace-delimited token of a line that starts with none
FirstToken(str) ==
    LET stops == {i \in 1..Len(str) : str[i] \in Whitespace}
    IN  IF stops = {} THEN str
        ELSE Slice(str, 1, (CHOOSE i \in stops : \A j \in stops : i <= j) - 1)

\* C16: when the first token of the line holds no '=', parseLogfmt returns
\* the whole trimmed line as one field name mapped to true, also when a
\* later token of the line holds '='.
C16_BareTokenTakesRestOfLine ==
    (/\ lfPc = "done"
     /\ TrimSpace(lfLine) # <<>>
     /\ IndexByte(FirstToken(TrimSpace(lfLine)), "=") = 0)
    => /\ ~lfResult.err
       /\ lfResult.entry = MapSet(EmptyEntry, TrimSpace(lfLine), BoolVal(TRUE))

----------------------------------------------------------------------------
(* More claims about the parsers. *)

\* the lines of the model in which a quoted value has no closing quote
UnterminatedLines ==
    { <<"a", "=", "\"">>, <<"a", "=", "1", " ", "a", "=", "\"">> }

\* C17: in the logfmt parser a line whose quoted value has no closing quote
\* never gives a Record, not even of the pairs before that value, and once
\* both channels are drained it has given exactly one error, with its line
\* number, and every well-formed line after it has given its Record.
C17_UnterminatedQuoteIsLineError ==
    variant = "logfmt" =>
        \A i \in 1..Len(input) :
            input[i] \in UnterminatedLines =>
                /\ RecordsOf(i) = 0
                /\ ErrorsOf(i) <= 1
                /\ BothDrained =>
                      /\ ErrorsOf(i) = 1
                      /\ \A j \in (i + 1)..Len(input) :
                            WellFormed(j) => Emitted(j)

\* a drained logfmt run in which a complete pair and an unterminated value
\* share line 1, and line 2 gave a Record
C17_Witness ==
    /\ variant = "logfmt"
    /\ BothDrained
    /\ Len(input) = 2
    /\ input[1] = <<"a", "=", "1", " ", "a", "=", "\"">>
    /\ Len(got) = 1
    /\ got[1].line = 2
    /\ gotErrs = <<[line |-> 1, cause |-> "decode"]>>

----------------------------------------------------------------------------
(* More claims about parseLogfmt. *)

\* every whitespace-delimited token of str holds a '='
EveryTokenHasEquals(str) ==
    \A i \in 1..Len(str) :
        str[i] \notin Whitespace =>
            \E j \in 1..Len(str) :
                /\ str[j] = "="
                /\ \A k \in 1..Len(str) :
                      ((i <= k /\ k <= j) \/ (j <= k /\ k <= i))
                          => str[k] \notin Whitespace

\* str with a space in place of every tab
TabsToSpaces(str) == [i \in 1..Len(str) |-> IF str[i] = "\t" THEN " " ELSE str[i]]

\* C18: in a line of key=value tokens without quotes, an unquoted value ends
\* at the next whitespace character, tab or space alike: no value holds a
\* whitespace character, and the line parses to the same fields as the line
\* with a space in place of every tab.
C18_UnquotedValueEndsAtWhitespace ==
    (/\ lfPc = "done"
     /\ IndexByte(lfLine, "\"") = 0
     /\ EveryTokenHasEquals(lfLine))
    => /\ ~lfResult.err
       /\ \A key \in DOMAIN lfResult.entry :
             \A i \in 1..Len(lfResult.entry[key].str) :
                 lfResult.entry[key].str[i] \notin Whitespace
       /\ lfResult = parseLogfmt(TabsToSpaces(lfLine))

----------------------------------------------------------------------------
(* More claims about sniffFormat. *)

\* C19: sniffFormat returns "json" exactly when the first byte of the
\* stream that is not whitespace is '{' (the first non-blank line, trimmed,
\* begins with it) or the stream has no such byte (empty or all blank), and
\* "logfmt" in every other case; blank lines before that byte change nothing.
C19_SniffChoosesByFirstNonBlankLine ==
    sniffPc \in {"returned", "done"} =>
        detected = IF \/ TrimSpace(stream) = <<>>
                      \/ TrimSpace(stream)[1] = "{"
                   THEN "json" ELSE "logfmt"

\* logfmt chosen for a stream with a blank line, then a line holding a '{'
\* that is not its first byte
C19_Witness ==
    /\ sniffPc = "returned"
    /\ detected = "logfmt"
    /\ stream = <<" ", "\n", "a", "{">>

----------------------------------------------------------------------------
(* More claims about the filter. *)

\* none of the seven operators occurs in e
NoOperatorIn(e) == \A k \in 1..Len(PriorityOrder) : ~Occurs(PriorityOrder[k], e)

\* the operator of e is ~: a ~ occurs and no != does
TildeChosen(e) == Occurs(<<"~">>, e) /\ ~Occurs(<<"!", "=">>, e)

\* what follows the leftmost ~ of e
AfterTilde(e) ==
    Slice(e, (CHOOSE i \in 1..Len(e) :
                 e[i] = "~" /\ \A j \in 1..(i - 1) : e[j] # "~") + 1, Len(e))

\* C20: NewFieldFilter returns an error and no filter when none of the
\* seven operators occurs in the expression (the empty expression is such a
\* one) or when its operator is ~ and what follows the ~ is not a valid
\* regular expression; in every other case it returns a filter and no
\* error, and a ~ filter carries its compiled pattern.
C20_CompileErrorsExactly ==
    fpc # "idle" =>
        IF \/ NoOperatorIn(expr)
           \/ (TildeChosen(expr) /\ ~RegexCompiles(AfterTilde(expr)))
        THEN /\ fpc = "failed"
             /\ filt.err # "nil"
             /\ filt.Field = <<>> /\ filt.Operator = <<>> /\ filt.Value = <<>>
             /\ ~filt.re
             /\ NoOperatorIn(expr) <=> filt.err = "invalid filter expression"
        ELSE /\ fpc \in {"compiled", "matched"}
             /\ filt.err = "nil"
             /\ filt.Operator \in {PriorityOrder[k] : k \in 1..Len(PriorityOrder)}
             /\ filt.Operator = <<"~">> <=> filt.re

\* "~(=" is rejected for its pattern, though an = comes after the ~
C20_Witness ==
    /\ fpc = "failed"
    /\ expr = <<"~", "(", "=">>
    /\ filt.err = "invalid regex in filter"

----------------------------------------------------------------------------
(* Claims about the composite filter. *)

\* C21: CompositeFilter.Match returns true exactly when every child matches
\* the Record; with no children it returns true, for the empty Record too;
\* and children that are the same filters in another order give the same
\* result.
C21_CompositeIsConjunction ==
    cpc = "done" =>
        /\ cmatched <=> \A i \in 1..Len(cfilters) : Match(cfilters[i], centry)
        /\ cfilters = <<>> => cmatched
        /\ \A i, j \in 1..Len(cfilters) :
              cmatched = CompositeMatch(
                  [cfilters EXCEPT ![i] = cfilters[j], ![j] = cfilters[i]],
                  centry)

\* a composite whose first child matches and whose second does not
C21_Witness ==
    /\ cpc = "done"
    /\ Len(cfilters) = 2
    /\ Match(cfilters[1], centry)
    /\ ~Match(cfilters[2], centry)
    /\ ~cmatched

----------------------------------------------------------------------------
(* Claims about the set-up of main. *)

\* C23: once a filter expression has failed to compile the run has exited
\* with status 1 and Parse has not been called on any source: no Record has
\* been loaded, filtered, formatted or counted and no parse error printed.
C23_FilterCompileErrorIsFatal ==
    sCompileFailed =>
        /\ sPc = "exited"
        /\ sStatus = 1
        /\ sStarts = 0
        /\ sLoaded = 0
        /\ sProcessed = 0
        /\ sReported = 0

\* merge mode, with sources that open, and a second -filter that is bad
C23_Witness ==
    /\ sCompileFailed
    /\ sPc = "exited"
    /\ Len(flags.merge) = 2
    /\ \A i \in 1..2 : flags.merge[i].opens /\ flags.merge[i].records = 1
    /\ Len(flags.filters) = 2
    /\ NewFieldFilter(flags.filters[1]).err = "nil"

\* C26: once a source has failed to open the run has exited with status 1,
\* and Parse has not been called on any source, no parse error has been
\* printed and no Record emitted.
C26_OpenErrorBeforeProcessing ==
    sOpenFailed =>
        /\ sPc = "exited"
        /\ sStatus = 1
        /\ sStarts = 0
        /\ sReported = 0
        /\ sProcessed = 0

----------------------------------------------------------------------------
(* Claims about the timestamp of a Record. *)

\* the first of time, ts, timestamp that the entry has, or 0
FirstPresentTimeKey(entry) ==
    LET present == {k \in 1..Len(TimeKeys) : TimeKeys[k] \in DOMAIN entry}
    IN  IF present = {} THEN 0
        ELSE CHOOSE k \in present : \A j \in present : k <= j

\* C24: the timestamp used for the merge order is read from the first present
\* field among time, ts, timestamp, which is the field the text renderer
\* shows: a number above 1e9 as Unix seconds, else RFC 3339; when that field
\* is not usable, or there is no such field, the Record has no timestamp.
C24_SortTimestampFromFirstPresentField ==
    tsPc = "done" =>
        LET k == FirstPresentTimeKey(tsEntry)
        IN  IF k = 0 THEN tsSort = ZeroTime /\ tsShown = <<>>
            ELSE LET str == SprintV(tsEntry[TimeKeys[k]])
                     sc  == SscanFloat(str)
                     rfc == ParseRFC3339(str)
                 IN  /\ tsShown = str
                     /\ tsSort = IF sc.ok /\ sc.f > UnixThreshold
                                 THEN UnixTime(sc.f)
                                 ELSE IF rfc.ok THEN rfc.t ELSE ZeroTime

----------------------------------------------------------------------------
(* Claims about loadEntries. *)

\* C25: loadEntries has one merged record for every Record it has received
\* from the parser, in the parser's order; each has _source equal to the
\* source label, in place of any _source the line had, and the timestamp
\* parseTimestampForSort derives from it; when it returns it has received
\* every Record, and an empty source gives an empty list.
C25_LoadEntriesTagsEveryRecord ==
    ldPc # "idle" =>
        /\ Len(ldResult) = ldTaken
        /\ \A i \in 1..Len(ldResult) :
              /\ ldResult[i].entry =
                     MapSet(ParsedRecords(ldInput)[i].fields, KeySource,
                            StrVal(SourceLabel(1)))
              /\ ldResult[i].t = parseTimestampForSort(ldResult[i].entry)
        /\ ldPc = "returned" => ldTaken = Len(ParsedRecords(ldInput))
        /\ (ldPc = "returned" /\ ldInput = <<>>) => ldResult = <<>>

----------------------------------------------------------------------------
(* More claims about parseLogfmt. *)

\* the positions in line, after the opening quote at position open, of the
\* double quotes that do not directly follow a backslash
ClosingQuotes(line, open) ==
    {j \in (open + 1)..Len(line) : line[j] = "\"" /\ line[j - 1] # "\\"}

\* C27: when the first value of a line opens with a double quote, it ends at
\* the first later double quote whose preceding byte is not a backslash; with
\* no such quote the line is an error; otherwise the value stored is the
\* bytes between the two quotes as they stand ("" gives the empty string)
\* and the rest of the line is parsed from the byte after the closing quote.
C27_QuotedValueEndsAtUnescapedQuote ==
    lfPc = "done" =>
        LET line == TrimSpace(lfLine)
            eq   == IndexByte(line, "=")
        IN  (eq > 0 /\ eq < Len(line) /\ line[eq + 1] = "\"") =>
                LET closing == ClosingQuotes(line, eq + 1)
                    close   == CHOOSE j \in closing : \A i \in closing : j <= i
                    key     == Slice(line, 1, eq - 1)
                    value   == Slice(line, eq + 2, close - 1)
                IN  IF closing = {} THEN lfResult.err
                    ELSE lfResult =
                             LogfmtLoop(MapSet(EmptyEntry, key, StrVal(value)),
                                        Slice(line, close + 1, Len(line)))

\* a="\"": the quote after the backslash does not end the value, the next
\* one does, and the value keeps its backslash
C27_Witness ==
    /\ lfPc = "done"
    /\ lfLine = <<"=", "\"", "\\", "\"", "\"">>
    /\ ~lfResult.err
    /\ lfResult.entry = MapSet(EmptyEntry, <<>>, StrVal(<<"\\", "\"">>))

----------------------------------------------------------------------------
(* Claims about the two channels of the parsers. *)

\* C28: in both parsers the error channel is closed before the Record
\* channel: whenever the Record channel is closed the error channel is closed
\* too, and once the Record channel is closed no step puts an error on the
\* error channel (its buffer can only lose errors).
C28_ErrorsClosedBeforeEntries ==
    /\ [](entriesClosed => errorsClosed)
    /\ [][entriesClosed =>
             \/ errorsBuf' = errorsBuf
             \/ (errorsBuf # <<>> /\ errorsBuf' = Tail(errorsBuf))]_vars

\* the consumer has seen the Record channel close and an error that was sent
\* before still waits in the buffer
C28_Witness ==
    /\ entriesClosed
    /\ errorsClosed
    /\ rpc = "done"
    /\ errorsBuf # <<>>

\* C29: with a consumer that reads the Record channel only, and fair
\* scheduling, an input with at most one malformed line is parsed to its end:
\* every well-formed line is delivered as a Record and the consumer sees the
\* Record channel close.
C29_OneErrorNeedsNoDrain ==
    <>(/\ ppc # "idle"
       /\ Cardinality(MalformedLines) <= 1 =>
             /\ entriesClosed
             /\ rpc = "done"
             /\ \A i \in 1..Len(input) : WellFormed(i) => Emitted(i))

\* the one error sits in the buffer, unread, and a line after the malformed
\* one has been delivered before the Record channel closed
C29_Witness ==
    /\ ~errDrain
    /\ Cardinality(MalformedLines) = 1
    /\ errorsBuf # <<>>
    /\ rpc = "done"
    /\ \E i \in 1..Len(input) :
          /\ WellFormed(i)
          /\ \E j \in MalformedLines : j < i
          /\ Emitted(i)

----------------------------------------------------------------------------
(* Claims about the logfmt renderer. *)

\* the entry is one the round trip is claimed for: not empty, keys not empty
\* and free of whitespace, '=' and '"', values strings free of '"' and of
\* line breaks
RoundTrippable(entry) ==
    /\ DOMAIN entry # {}
    /\ \A k \in DOMAIN entry :
          /\ k # <<>>
          /\ ~ContainsAny(k, Whitespace \cup {"=", "\""})
          /\ entry[k].kind = "string"
          /\ ~ContainsAny(entry[k].str, {"\"", "\n", "\r"})

\* C30: an entry of that kind, written by LogfmtFormatter.Format and read
\* back by parseLogfmt, gives no error and an entry with the same keys and
\* the same string values.
C30_LogfmtRoundTrip ==
    (rtPc = "parsed" /\ RoundTrippable(rtEntry)) =>
        /\ ~rtResult.err
        /\ rtResult.entry = rtEntry

----------------------------------------------------------------------------
(* Claims about what the pipeline does to a Record. *)

\* C22: Match and Format leave the Record's fields and values as they were:
\* at every point after the parser the Record is the one the parser emitted,
\* except that in merge mode, from loadEntries on, its _source is the source
\* label; in single-source mode it has _source only when the parser gave it.
C22_OnlyLoadEntriesChangesRecord ==
    /\ pipePc \in {"load", "match", "format", "done"} =>
          record = IF pipeMode = "merge" /\ pipePc # "load"
                   THEN MapSet(parsed, KeySource, StrVal(SourceLabel(1)))
                   ELSE parsed
    /\ pipeMode = "single" =>
          (KeySource \in DOMAIN record <=> KeySource \in DOMAIN parsed)

\* a Record with four fields has been matched by a filter and written
C22_Witness ==
    /\ pipePc = "done"
    /\ pipeMode = "single"
    /\ pipeFilters # <<>>
    /\ pipeMatched
    /\ written # <<>>
    /\ DOMAIN record = {KeyTs, KeyLvl, KeyMsg, <<"a">>}

====
